---- MODULE Spec2Model ----
(***************************************************************************)
(* moji-bridge: window focus orchestration and input automation.           *)
(*                                                                         *)
(*   SpecLocator  find_terminal_pid / init_terminal_tracking (terminal.rs) *)
(*   SpecHook     keyboard_hook_proc, focus_window and the listener thread *)
(*                of one resident instance (hotkey.rs)                     *)
(*   SpecHook2    the same for two instances sharing one desktop           *)
(*   SpecPaste    paste_to_terminal / send_to_terminal (terminal.rs)       *)
(*   SpecEnum     get_window_by_pid called by concurrent threads; with     *)
(*                SpecEnumFair the threads are scheduled fairly            *)
(*   SpecPoll     register_own_hwnd_async, the polling thread (app.rs);    *)
(*                SpecPollFair schedules it fairly                         *)
(*   SpecApp      main in resident mode and resident_update (main.rs,      *)
(*                app.rs), with the paste sequencer it calls; the threads  *)
(*                it spawns are followed in SpecHook and SpecPoll          *)
(*   SpecResident main in resident mode with the writers of the hook's     *)
(*                targets: the polling thread and window-focused events    *)
(*   SpecToggle   SpecHook with the history of the latest chord            *)
(*   SpecTrigger  is_trigger (hook.rs)                                     *)
(*   SpecStub     the operations of a build for another platform than      *)
(*                Windows (terminal.rs, hotkey.rs)                         *)
(*   SpecChord    the chord on the desktop of a resident process: the hook *)
(*                and the helper's own Ctrl+I handler (hotkey.rs, app.rs)  *)
(*   SpecDetach   detach_and_spawn_resident (main.rs)                      *)
(*                                                                         *)
(* Option<T> is a sequence of length 0 (None) or 1 (Some(x)).              *)
(***************************************************************************)
EXTENDS Integers, Sequences, FiniteSets, TLC

None == << >>
Some(x) == << x >>

(***************************************************************************)
(* Bounds of the model.                                                    *)
(***************************************************************************)
\* longest parent chain (number of processes) of a generated process map
MaxChain == 12
\* the window handles of the hook engine are 0 (null / unset) and 1..MaxHwnd
MaxHwnd == 4
\* the windows of the desktop the paste sequencer works on have the handles
\* 1..MaxWinHwnd
MaxWinHwnd == 2
\* most top-level windows on that desktop
MaxWindows == 2
\* threads that call get_window_by_pid concurrently
MaxEnumThreads == 2
\* longest prompt given to is_trigger
MaxPromptLen == 4
\* lookups the polling thread has made when the helper's window appears
\* while it runs
MaxAppearAttempt == 2

VARIABLES
    \* ---- terminal.rs: process ancestry locator
    process_map,      \* pid -> (parent_pid, name), the snapshot built at lines 59-79
    snapshot_ok,      \* whether CreateToolhelp32Snapshot succeeded (line 56)
    current_pid,      \* the loop's cursor (line 82)
    loc_iter,         \* iterations of `for _ in 0..10` begun so far
    loc_lookups,      \* number of process_map.get calls made
    loc_result,       \* find_terminal_pid's return value (an Option), once returned
    loc_pc,           \* "start" | "loop" | "return" | "done"
    TERMINAL_PID,     \* the OnceLock of line 200 (an Option)
    \* ---- hotkey.rs: per-instance statics (one instance = one resident process)
    TERMINAL_HWND,    \* [Inst -> Hwnd], line 23
    OWN_MOJI_HWND,    \* [Inst -> Hwnd], line 26
    HOOK_HANDLE,      \* [Inst -> 0 or 1], line 30 (1 = some non-null handle)
    listener,         \* [Inst -> state of the thread of start_hotkey_listener]
    instances,        \* the instances (resident processes) that exist
    reg_dom,          \* [Inst -> the handles the instance may register]
    \* ---- the desktop
    foreground,       \* GetForegroundWindow(): a handle, 0 when there is none
    hook_chain,       \* installed WH_KEYBOARD_LL hooks, most recent first
    alt_down,         \* whether the synthetic Alt key is pressed
    \* ---- the key event being dispatched through the hook chain
    ev,               \* the event, NoEvent when none is in flight
    ev_fg,            \* foreground window when the event arrived
    ev_pending,       \* instances whose hook is still to be called (head = running)
    ev_activations,   \* SetForegroundWindow requests of this event: << [inst, hwnd] >>
    ev_forwarded,     \* instances whose callback returned CallNextHookEx
    ev_outcome,       \* "none" | "consumed" | "delivered"
    ev_raced,         \* a target was overwritten while the event was in flight
    \* ---- keyboard_hook_proc of the instance Head(ev_pending)
    hk_pc,            \* position in the callback
    foreground_hwnd,  \* line 101
    terminal_hwnd,    \* line 102
    own_moji_hwnd,    \* line 103
    hk_ret,           \* "none" | "forward" (CallNextHookEx) | "consume" (LRESULT(1))
    \* ---- focus_window
    fw_hwnd,          \* its argument
    fw_result,        \* "none" | "ok" | "rejected": SetForegroundWindow's answer
    os_calls,         \* the OS calls of the running callback, in order
    \* ---- terminal.rs: resolver and paste sequencer
    windows,          \* the top-level windows in enumeration order: << [hwnd, pid] >>
    ps_fn,            \* "none" | "paste" (paste_to_terminal) | "send" (send_to_terminal)
    ps_pc,            \* position in the running call
    ps_override,      \* the argument hwnd_override (an Option)
    ps_hwnd,          \* the local hwnd: the effective target
    ps_result,        \* "none" | "ok" | the error message of the Err
    ps_trace,         \* the calls made by the running call, in order: << [step, ok] >>
    sfw_calls,        \* the OS calls terminal::set_foreground_window has made for the
                      \* running call or handler, in order
    \* ---- terminal.rs: get_window_by_pid called by several threads
    ENUM_WINDOWS_LOCK,  \* the Mutex of line 142: 0 when free, else the thread holding it
    en_pc,            \* [thread -> position in get_window_by_pid]
    en_pid,           \* [thread -> the argument pid]
    en_context,       \* [thread -> the local EnumWindowsContext of lines 164-167]
    en_k,             \* [thread -> index of the next window EnumWindows hands to the callback]
    en_result,        \* [thread -> the value returned: an Option]
    \* ---- app.rs: the thread of register_own_hwnd_async
    helper_hwnd,      \* the window that carries the helper's title, 0 while there is none
    poll_pc,          \* "not_started" | "lookup" | "sleep" | "done"
    poll_attempts,    \* calls of find_window_by_title made by the thread
    poll_sleeps,      \* 100 ms sleeps of the thread
    poll_stores,      \* calls of set_own_moji_hwnd made by the thread
    \* ---- main.rs and app.rs: a resident process
    args_terminal_hwnd,  \* the argument --terminal-hwnd (an Option)
    main_pc,          \* position in main
    main_terminal_hwnd,  \* main's local terminal_hwnd, line 148 (an Option)
    RESIDENT_CONFIG,  \* the OnceLock of app.rs line 19 (an Option)
    content,          \* the editor's text
    status_message,   \* state.status_message (an Option)
    clipboard,        \* the text on the system clipboard (an Option)
    upd_pc,           \* position in the running resident_update, "idle" when none runs
    upd_trace,        \* the calls made by the running resident_update, in order
    \* ---- history of the toggle
    toggle_from,      \* the window that was in front before the latest chord, when
                      \* that chord moved the focus and nothing has disturbed the
                      \* pair or the focus since; 0 otherwise
    \* ---- functions applied as a whole
    prompt,           \* hook.rs: the prompt given to is_trigger
    returned,         \* the function called last and the value it returned
    \* ---- main.rs: a process started with --detach
    titles,           \* the titles of the top-level windows on the desktop
    dt_pc,            \* position in detach_and_spawn_resident
    dt_hwnd,          \* its local hwnd, line 39 (an Option)
    dt_spawned        \* the argument lists of the processes it has spawned

callVars == << prompt, returned >>
detachVars == << titles, dt_pc, dt_hwnd, dt_spawned >>

locVars == << process_map, snapshot_ok, current_pid, loc_iter, loc_lookups,
              loc_result, loc_pc >>

hookRest == << instances, reg_dom, TERMINAL_HWND, OWN_MOJI_HWND, HOOK_HANDLE, listener,
               hook_chain, alt_down, ev, ev_fg, ev_pending, ev_activations,
               ev_forwarded, ev_outcome, ev_raced, hk_pc, foreground_hwnd,
               terminal_hwnd, own_moji_hwnd, hk_ret, fw_hwnd, fw_result, os_calls >>

hookVars == << hookRest, foreground >>

pasteVars == << windows, ps_fn, ps_pc, ps_override, ps_hwnd, ps_result, ps_trace,
                sfw_calls >>

enumVars == << ENUM_WINDOWS_LOCK, en_pc, en_pid, en_context, en_k, en_result >>

pollVars == << helper_hwnd, poll_pc, poll_attempts, poll_sleeps, poll_stores >>

appVars == << args_terminal_hwnd, main_pc, main_terminal_hwnd, RESIDENT_CONFIG, content,
              status_message, clipboard, upd_pc, upd_trace >>

vars == << locVars, TERMINAL_PID, hookVars, pasteVars, enumVars, pollVars, appVars,
           toggle_from, callVars, detachVars >>

\* the variables outside the specifications of the resident process
restVars == << toggle_from, callVars, detachVars >>

\* no function has been applied
NoReturn == [op |-> "none", value |-> None]
\* no process was started with --detach
DetachRest ==
    /\ titles = {}
    /\ dt_pc = "none"
    /\ dt_hwnd = None
    /\ dt_spawned = << >>
CallsRest ==
    /\ prompt = << >>
    /\ returned = NoReturn
    /\ DetachRest

(***************************************************************************)
(* Executable names are sequences of ASCII codes, so that                  *)
(* eq_ignore_ascii_case is computed and not assumed.                       *)
(***************************************************************************)
TERMINAL_PROCESS_NAMES == <<
    << 87, 105, 110, 100, 111, 119, 115, 84, 101, 114, 109, 105, 110, 97, 108, 46, 101, 120, 101 >>,  \* WindowsTerminal.exe
    << 99, 109, 100, 46, 101, 120, 101 >>,                                                            \* cmd.exe
    << 112, 111, 119, 101, 114, 115, 104, 101, 108, 108, 46, 101, 120, 101 >>,                        \* powershell.exe
    << 112, 119, 115, 104, 46, 101, 120, 101 >>,                                                      \* pwsh.exe
    << 109, 105, 110, 116, 116, 121, 46, 101, 120, 101 >>,                                            \* mintty.exe
    << 67, 111, 110, 69, 109, 117, 54, 52, 46, 101, 120, 101 >>,                                      \* ConEmu64.exe
    << 67, 111, 110, 69, 109, 117, 46, 101, 120, 101 >>,                                              \* ConEmu.exe
    << 97, 108, 97, 99, 114, 105, 116, 116, 121, 46, 101, 120, 101 >>,                                \* alacritty.exe
    << 119, 101, 122, 116, 101, 114, 109, 45, 103, 117, 105, 46, 101, 120, 101 >> >>                  \* wezterm-gui.exe

\* u8::to_ascii_lowercase: only 'A'..'Z' (65..90) are folded
to_ascii_lowercase(c) == IF c >= 65 /\ c <= 90 THEN c + 32 ELSE c

\* (faulty variant: the names are compared as they are)
eq_case_sensitive(a, b) == a = b
\* str::eq_ignore_ascii_case: same length and bytewise equal after folding
eq_ignore_ascii_case(a, b) ==
    /\ Len(a) = Len(b)
    /\ \A i \in 1..Len(a) : to_ascii_lowercase(a[i]) = to_ascii_lowercase(b[i])

\* the inner loop of lines 87-91
IsTerminalName(name) ==
    \E k \in 1..Len(TERMINAL_PROCESS_NAMES) :
        eq_ignore_ascii_case(name, TERMINAL_PROCESS_NAMES[k])

\* std::process::id()
CurrentPid == 1

\* the bound of `for _ in 0..10`
HopLimit == 10

(***************************************************************************)
(* Process maps the model starts from: a chain 1 -> 2 -> ... -> L of       *)
(* parent links from the current process, whose last process has a parent *)
(* that is missing from the map (0) or is a process of the chain (a cycle; *)
(* itself included).  L = 0 is the empty map.  Every process is named      *)
(* explorer.exe except at most two, which carry one of SpecialNames.       *)
(***************************************************************************)
PlainName == << 101, 120, 112, 108, 111, 114, 101, 114, 46, 101, 120, 101 >>   \* explorer.exe

SpecialNames == {
    << 99, 109, 100, 46, 101, 120, 101 >>,          \* cmd.exe   (listed)
    << 80, 119, 83, 104, 46, 69, 88, 69 >>,         \* PwSh.EXE  (listed, other case)
    << 99, 109, 100, 46, 101, 120, 101, 50 >> }     \* cmd.exe2  (not listed)

\* the i-th of at most two specially named processes: position 0 means "none"
SpecialAt(p, pos1, name1, pos2, name2) ==
    IF pos1 # 0 /\ p = pos1 THEN name1
    ELSE IF pos2 # 0 /\ p = pos2 THEN name2
    ELSE PlainName

ChainMap(L, tail, pos1, name1, pos2, name2) ==
    [p \in 1..L |->
        [parent_pid |-> IF p < L THEN p + 1 ELSE tail,
         name       |-> SpecialAt(p, pos1, name1, pos2, name2)]]

AnyName == CHOOSE n \in SpecialNames : TRUE

\* process_map is one of the maps described above
IsGeneratedMap(m) ==
    \E L \in 0..MaxChain : \E tail \in 0..L :
    \E pos1 \in 0..L : \E pos2 \in 0..L :
    \E name1 \in SpecialNames : \E name2 \in SpecialNames :
        /\ pos1 = 0 => (pos2 = 0 /\ name1 = AnyName)
        /\ pos2 = 0 => name2 = AnyName
        /\ pos2 # 0 => pos1 < pos2
        /\ m = ChainMap(L, tail, pos1, name1, pos2, name2)

(***************************************************************************)
(* find_terminal_pid (Windows build), one action per loop iteration.       *)
(***************************************************************************)
LocInit ==
    /\ IsGeneratedMap(process_map)
    /\ snapshot_ok = TRUE
    /\ current_pid = CurrentPid
    /\ loc_iter = 0
    /\ loc_lookups = 0
    /\ loc_result = None
    /\ loc_pc = "start"
    /\ TERMINAL_PID = None

\* the locator at rest, for the specifications that do not exercise it
LocIdle ==
    /\ process_map = << >>
    /\ snapshot_ok = TRUE
    /\ current_pid = CurrentPid
    /\ loc_iter = 0
    /\ loc_lookups = 0
    /\ loc_result = None
    /\ loc_pc = "done"

\* lines 55-82: the snapshot is taken and the map built, or `.ok()?` returns None
FindTerminalPidEnter ==
    /\ loc_pc = "start"
    /\ \E ok \in BOOLEAN :
        /\ snapshot_ok' = ok
        /\ IF ok
             THEN /\ loc_pc' = "loop"
                  /\ current_pid' = CurrentPid
                  /\ loc_result' = None
             ELSE /\ loc_pc' = "return"
                  /\ loc_result' = None
                  /\ UNCHANGED current_pid
    /\ UNCHANGED << process_map, loc_iter, loc_lookups, TERMINAL_PID >>

\* (faulty variant: a walk without the bound)
LoopContinuesUnbounded == TRUE
\* `for _ in 0..10`: another iteration is begun
LoopContinues == loc_iter < HopLimit

\* (faulty variant: the cursor is advanced before the match is returned)
MatchResultParent(pid, parent) == Some(parent)
\* line 89: what a match returns
MatchResult(pid, parent) == Some(pid)

\* lines 84-96: one iteration of the loop
FindTerminalPidIterate ==
    /\ loc_pc = "loop"
    /\ LoopContinues
    /\ loc_lookups' = loc_lookups + 1
    /\ loc_iter' = loc_iter + 1
    /\ IF current_pid \in DOMAIN process_map
         THEN LET e == process_map[current_pid] IN
              IF IsTerminalName(e.name)
                THEN /\ loc_result' = MatchResult(current_pid, e.parent_pid)
                     /\ loc_pc' = "return"
                     /\ UNCHANGED current_pid
                ELSE /\ current_pid' = e.parent_pid
                     /\ UNCHANGED << loc_result, loc_pc >>
         ELSE /\ loc_result' = None          \* break, then line 98
              /\ loc_pc' = "return"
              /\ UNCHANGED current_pid
    /\ UNCHANGED << process_map, snapshot_ok, TERMINAL_PID >>

\* line 98: the loop ran out of iterations
FindTerminalPidExhausted ==
    /\ loc_pc = "loop"
    /\ ~LoopContinues
    /\ loc_result' = None
    /\ loc_pc' = "return"
    /\ UNCHANGED << process_map, snapshot_ok, current_pid, loc_iter, loc_lookups,
                    TERMINAL_PID >>

\* init_terminal_tracking, lines 204-208: OnceLock::set stores only when empty
InitTerminalTracking ==
    /\ loc_pc = "return"
    /\ TERMINAL_PID' = IF loc_result # None /\ TERMINAL_PID = None
                         THEN loc_result ELSE TERMINAL_PID
    /\ loc_pc' = "done"
    /\ UNCHANGED << process_map, snapshot_ok, current_pid, loc_iter, loc_lookups,
                    loc_result >>

\* get_terminal_pid, lines 211-213
get_terminal_pid == TERMINAL_PID


(***************************************************************************)
(* hotkey.rs.  Two resident instances (processes) run on one desktop; each *)
(* has its own statics and its own listener thread, and the OS calls the   *)
(* installed low-level keyboard hooks one after the other, the most        *)
(* recently installed first.  A hook that returns CallNextHookEx hands the *)
(* event to the next one; after the last one the foreground application    *)
(* receives it.  The foreground window changes only between two events or  *)
(* by an activation; a target may be overwritten at any time up to the     *)
(* callback's last load (later stores cannot influence the callback).      *)
(***************************************************************************)
Inst == {1, 2}
Hwnd == 0..MaxHwnd

\* hotkey.rs line 20
VK_I == 73
\* windows::Win32::UI::WindowsAndMessaging::WM_KEYDOWN
WM_KEYDOWN == 256

TriggerChord == [code |-> 0, wparam |-> WM_KEYDOWN, vkCode |-> VK_I, ctrl |-> TRUE]
NoEvent      == [code |-> 0, wparam |-> 0, vkCode |-> 0, ctrl |-> FALSE]

\* the chord, and the events that miss it in one respect: a negative hook
\* code, a key-up (WM_KEYUP), another key ('J'), Ctrl not held
KeyEvents == { TriggerChord,
               [TriggerChord EXCEPT !.code = -1],
               [TriggerChord EXCEPT !.wparam = 257],
               [TriggerChord EXCEPT !.vkCode = 74],
               [TriggerChord EXCEPT !.ctrl = FALSE] }

\* (faulty variant: the state of Ctrl is not asked for)
IsTriggerChordIgnoringCtrl(e) ==
    /\ e.code >= 0
    /\ e.wparam = WM_KEYDOWN
    /\ e.vkCode = VK_I
\* lines 95 and 99; ctrl is what is_ctrl_pressed() (lines 139-141) answers
IsTriggerChord(e) ==
    /\ e.code >= 0
    /\ e.wparam = WM_KEYDOWN
    /\ e.vkCode = VK_I
    /\ e.ctrl

OsCall(name, h) == [call |-> name, hwnd |-> h]

targetVars   == << TERMINAL_HWND, OWN_MOJI_HWND >>
listenerVars == << HOOK_HANDLE, listener, hook_chain >>
evVars       == << ev, ev_fg, ev_pending, ev_activations, ev_forwarded, ev_outcome,
                   ev_raced >>
cbVars       == << foreground_hwnd, terminal_hwnd, own_moji_hwnd, hk_ret, fw_hwnd,
                   fw_result, os_calls >>

\* the state of the statics and of the desktop when the processes start
HookStart ==
    /\ TERMINAL_HWND = [i \in Inst |-> 0]
    /\ OWN_MOJI_HWND = [i \in Inst |-> 0]
    /\ HOOK_HANDLE = [i \in Inst |-> 0]
    /\ listener = [i \in Inst |-> "not_started"]
    /\ foreground \in Hwnd
    /\ hook_chain = << >>
    /\ alt_down = FALSE
    /\ toggle_from = 0
    /\ ev = NoEvent
    /\ ev_fg = 0
    /\ ev_pending = << >>
    /\ ev_activations = << >>
    /\ ev_forwarded = {}
    /\ ev_outcome = "none"
    /\ ev_raced = FALSE
    /\ hk_pc = "idle"
    /\ foreground_hwnd = 0
    /\ terminal_hwnd = 0
    /\ own_moji_hwnd = 0
    /\ hk_ret = "none"
    /\ fw_hwnd = 0
    /\ fw_result = "none"
    /\ os_calls = << >>

\* one resident instance; it may register any window
HookInit ==
    /\ instances = {1}
    /\ reg_dom = [i \in Inst |-> Hwnd]
    /\ HookStart

\* two resident instances; the first may register any window, the second
\* the null handle and the two highest handles
HookInit2 ==
    /\ instances = Inst
    /\ reg_dom = [i \in Inst |-> IF i = 1 THEN Hwnd ELSE {0, MaxHwnd - 1, MaxHwnd}]
    /\ HookStart

\* the hook engine at rest, for the specifications that do not exercise it
HookIdle ==
    /\ HookInit
    /\ foreground = 0

\* a store may race with the callback's loads (lines 100-103)
StoreAllowed == hk_pc \in {"idle", "loaded_fg", "loaded_term"}

\* set_terminal_hwnd, lines 33-36
set_terminal_hwnd(i, hwnd) ==
    /\ StoreAllowed
    /\ hwnd \in reg_dom[i]
    /\ TERMINAL_HWND' = [TERMINAL_HWND EXCEPT ![i] = hwnd]
    /\ ev_raced' = (ev_raced \/ (hk_pc # "idle" /\ TERMINAL_HWND[i] # hwnd))
    /\ UNCHANGED << OWN_MOJI_HWND, listenerVars, foreground, alt_down, ev, ev_fg,
                    ev_pending, ev_activations, ev_forwarded, ev_outcome, hk_pc,
                    cbVars >>

\* set_own_moji_hwnd, lines 39-42
set_own_moji_hwnd(i, hwnd) ==
    /\ StoreAllowed
    /\ hwnd \in reg_dom[i]
    /\ OWN_MOJI_HWND' = [OWN_MOJI_HWND EXCEPT ![i] = hwnd]
    /\ ev_raced' = (ev_raced \/ (hk_pc # "idle" /\ OWN_MOJI_HWND[i] # hwnd))
    /\ UNCHANGED << TERMINAL_HWND, listenerVars, foreground, alt_down, ev, ev_fg,
                    ev_pending, ev_activations, ev_forwarded, ev_outcome, hk_pc,
                    cbVars >>

\* get_terminal_hwnd, lines 46-48
get_terminal_hwnd(i) == TERMINAL_HWND[i]

\* the user or another program brings a window to the front
ForegroundChange(w) ==
    /\ hk_pc = "idle"
    /\ foreground # w
    /\ foreground' = w
    /\ UNCHANGED << targetVars, listenerVars, alt_down, evVars, hk_pc, cbVars >>

(***************************************************************************)
(* start_hotkey_listener, lines 52-81: the listener thread.                *)
(*   not_started -> installing -> active -> uninstalling -> uninstalled    *)
(*                            \-> failed                                   *)
(***************************************************************************)
\* (faulty variant: the listener is started again while a hook is active)
ListenerStartableAgain(i) == listener[i] \in {"not_started", "active"}
\* main.rs lines 153-158: main calls start_hotkey_listener once, at start-up
ListenerStartable(i) == listener[i] = "not_started"

\* line 53: thread::spawn
start_hotkey_listener(i) ==
    /\ hk_pc = "idle"
    /\ ListenerStartable(i)
    /\ listener' = [listener EXCEPT ![i] = "installing"]
    /\ UNCHANGED << targetVars, HOOK_HANDLE, hook_chain, foreground, alt_down,
                    evVars, hk_pc, cbVars >>

\* (faulty variant: the thread enters the message loop without a hook)
AfterInstallFailureEntersLoop == "active"
\* lines 75-77: `Err(e)` is logged and the thread's closure ends
AfterInstallFailure == "failed"

\* lines 58-63 and 75-77: SetWindowsHookExW succeeds or fails
ListenerInstall(i) ==
    /\ hk_pc = "idle"
    /\ listener[i] = "installing"
    /\ \E ok \in BOOLEAN :
        IF ok
          THEN /\ listener' = [listener EXCEPT ![i] = "active"]
               /\ HOOK_HANDLE' = [HOOK_HANDLE EXCEPT ![i] = 1]
               /\ hook_chain' = << i >> \o hook_chain
          ELSE /\ listener' = [listener EXCEPT ![i] = AfterInstallFailure]
               /\ UNCHANGED << HOOK_HANDLE, hook_chain >>
    /\ UNCHANGED << targetVars, foreground, alt_down, evVars, hk_pc, cbVars >>

\* lines 67-69: GetMessageW returns 0 (WM_QUIT) or -1 and the loop ends
ListenerLoopEnds(i) ==
    /\ hk_pc = "idle"
    /\ listener[i] = "active"
    /\ listener' = [listener EXCEPT ![i] = "uninstalling"]
    /\ UNCHANGED << targetVars, HOOK_HANDLE, hook_chain, foreground, alt_down,
                    evVars, hk_pc, cbVars >>

\* lines 72-73: UnhookWindowsHookEx; HOOK_HANDLE keeps the old handle
ListenerUnhook(i) ==
    /\ hk_pc = "idle"
    /\ listener[i] = "uninstalling"
    /\ listener' = [listener EXCEPT ![i] = "uninstalled"]
    /\ hook_chain' = SelectSeq(hook_chain, LAMBDA j : j # i)
    /\ UNCHANGED << targetVars, HOOK_HANDLE, foreground, alt_down, evVars, hk_pc,
                    cbVars >>

(***************************************************************************)
(* A key event arrives.  Only a hook whose thread is in its message loop   *)
(* can be called.                                                          *)
(***************************************************************************)
CallableHooks == SelectSeq(hook_chain, LAMBDA j : listener[j] = "active")

KeyEvent(e) ==
    /\ hk_pc = "idle"
    /\ ev' = e
    /\ ev_fg' = foreground
    /\ ev_pending' = CallableHooks
    /\ ev_activations' = << >>
    /\ ev_forwarded' = {}
    /\ ev_raced' = FALSE
    /\ IF CallableHooks = << >>
         THEN /\ hk_pc' = "event_done"
              /\ ev_outcome' = "delivered"
         ELSE /\ hk_pc' = "call"
              /\ ev_outcome' = "none"
    /\ UNCHANGED << targetVars, listenerVars, foreground, alt_down, cbVars >>

(***************************************************************************)
(* keyboard_hook_proc, lines 90-135, of the instance Head(ev_pending).     *)
(***************************************************************************)
\* lines 95-101: not the chord -> line 134; the chord -> GetForegroundWindow
HookProcEntry ==
    /\ hk_pc = "call"
    /\ IF IsTriggerChord(ev)
         THEN /\ foreground_hwnd' = foreground
              /\ hk_pc' = "loaded_fg"
              /\ UNCHANGED hk_ret
         ELSE /\ hk_ret' = "forward"
              /\ hk_pc' = "ret"
              /\ UNCHANGED foreground_hwnd
    /\ UNCHANGED << targetVars, listenerVars, foreground, alt_down, evVars,
                    terminal_hwnd, own_moji_hwnd, fw_hwnd, fw_result, os_calls >>

\* (faulty variant: the terminal target is read from the helper's cell)
LoadTerminalHwndFromHelperCell(i) == OWN_MOJI_HWND[i]
\* line 102: TERMINAL_HWND.load(Ordering::SeqCst)
LoadTerminalHwnd(i) == TERMINAL_HWND[i]

\* line 102
HookProcLoadTerminal ==
    /\ hk_pc = "loaded_fg"
    /\ terminal_hwnd' = LoadTerminalHwnd(Head(ev_pending))
    /\ hk_pc' = "loaded_term"
    /\ UNCHANGED << targetVars, listenerVars, foreground, alt_down, evVars,
                    foreground_hwnd, own_moji_hwnd, hk_ret, fw_hwnd, fw_result,
                    os_calls >>

Forward == [ret |-> "forward", focus |-> None]
Consume(h) == [ret |-> "consume", focus |-> Some(h)]

\* Faulty variants of Decide.
\* the toggle activates the window that is already in front
DecideSameWindow(fg, t, own) ==
    IF t = 0 THEN Forward
    ELSE IF fg = t THEN (IF own # 0 THEN Consume(t) ELSE Forward)
    ELSE IF own # 0 /\ fg = own THEN Consume(own)
    ELSE Forward
\* the "not yet ready" test of line 111 is missing
DecideNoReadyCheck(fg, t, own) ==
    IF fg = t THEN (IF own # 0 THEN Consume(own) ELSE Forward)
    ELSE IF own # 0 /\ fg = own THEN Consume(t)
    ELSE Forward
\* `return LRESULT(1)` of line 122 is placed after the `if` of line 120
DecideConsumeUnsetHelper(fg, t, own) ==
    IF t = 0 THEN Forward
    ELSE IF fg = t THEN (IF own # 0 THEN Consume(own)
                         ELSE [ret |-> "consume", focus |-> None])
    ELSE IF own # 0 /\ fg = own THEN Consume(t)
    ELSE Forward
\* the chord is swallowed whatever window is in front
DecideSteal(fg, t, own) ==
    IF t = 0 THEN Forward
    ELSE IF fg = t THEN (IF own # 0 THEN Consume(own) ELSE Forward)
    ELSE IF own # 0 /\ fg = own THEN Consume(t)
    ELSE [ret |-> "consume", focus |-> None]

\* lines 110-134: what the callback does with the chord, from the three
\* values it read: the value it returns and the window it focuses, if any
Decide(fg, t, own) ==
    IF t = 0 THEN Forward                                           \* 111-114
    ELSE IF fg = t THEN (IF own # 0 THEN Consume(own) ELSE Forward)  \* 117-123
    ELSE IF own # 0 /\ fg = own THEN Consume(t)                      \* 124-128
    ELSE Forward                                                    \* 130-134

\* lines 103-134: load OWN_MOJI_HWND, then decide
HookProcDecide ==
    /\ hk_pc = "loaded_term"
    /\ own_moji_hwnd' = OWN_MOJI_HWND[Head(ev_pending)]
    /\ LET d == Decide(foreground_hwnd, terminal_hwnd, OWN_MOJI_HWND[Head(ev_pending)]) IN
         IF d.focus # None
           THEN /\ fw_hwnd' = d.focus[1]
                /\ hk_pc' = "fw_restore"
                /\ UNCHANGED hk_ret
           ELSE /\ hk_ret' = d.ret
                /\ hk_pc' = "ret"
                /\ UNCHANGED fw_hwnd
    /\ UNCHANGED << targetVars, listenerVars, foreground, alt_down, evVars,
                    foreground_hwnd, terminal_hwnd, fw_result, os_calls >>

(***************************************************************************)
(* focus_window, lines 145-166.                                            *)
(***************************************************************************)
\* line 150: ShowWindow(hwnd, SW_RESTORE)
FocusWindowRestore ==
    /\ hk_pc = "fw_restore"
    /\ os_calls' = Append(os_calls, OsCall("ShowWindow", fw_hwnd))
    /\ hk_pc' = "fw_alt_down"
    /\ UNCHANGED << targetVars, listenerVars, foreground, alt_down, evVars,
                    foreground_hwnd, terminal_hwnd, own_moji_hwnd, hk_ret, fw_hwnd,
                    fw_result >>

\* line 154: keybd_event(VK_MENU, .., KEYEVENTF_EXTENDEDKEY)
FocusWindowAltDown ==
    /\ hk_pc = "fw_alt_down"
    /\ os_calls' = Append(os_calls, OsCall("AltDown", 0))
    /\ alt_down' = TRUE
    /\ hk_pc' = "fw_setfg"
    /\ UNCHANGED << targetVars, listenerVars, foreground, evVars, foreground_hwnd,
                    terminal_hwnd, own_moji_hwnd, hk_ret, fw_hwnd, fw_result >>

\* (faulty variant: an early return when the request is rejected)
AfterSetForegroundReturnOnFailure(ok) == IF ok THEN "fw_alt_up" ELSE "fw_done"
\* where focus_window goes on after SetForegroundWindow answered
AfterSetForeground(ok) == "fw_alt_up"

\* line 156: SetForegroundWindow(hwnd); the OS accepts or rejects the request
\* (a null handle is always rejected)
FocusWindowSetForeground ==
    /\ hk_pc = "fw_setfg"
    /\ \E ok \in BOOLEAN :
        /\ (fw_hwnd = 0) => ~ok
        /\ fw_result' = IF ok THEN "ok" ELSE "rejected"
        /\ foreground' = IF ok THEN fw_hwnd ELSE foreground
        /\ hk_pc' = AfterSetForeground(ok)
    /\ os_calls' = Append(os_calls, OsCall("SetForegroundWindow", fw_hwnd))
    /\ ev_activations' = Append(ev_activations,
                                [inst |-> Head(ev_pending), hwnd |-> fw_hwnd])
    /\ UNCHANGED << targetVars, listenerVars, alt_down, ev, ev_fg, ev_pending,
                    ev_forwarded, ev_outcome, ev_raced, foreground_hwnd,
                    terminal_hwnd, own_moji_hwnd, hk_ret, fw_hwnd >>

\* line 159: keybd_event(VK_MENU, .., KEYEVENTF_EXTENDEDKEY | KEYEVENTF_KEYUP)
FocusWindowAltUp ==
    /\ hk_pc = "fw_alt_up"
    /\ os_calls' = Append(os_calls, OsCall("AltUp", 0))
    /\ alt_down' = FALSE
    /\ hk_pc' = "fw_done"
    /\ UNCHANGED << targetVars, listenerVars, foreground, evVars, foreground_hwnd,
                    terminal_hwnd, own_moji_hwnd, hk_ret, fw_hwnd, fw_result >>

\* (faulty variant: a chord whose activation was rejected is passed on)
ReturnAfterFocusForwardOnReject(result) ==
    IF result = "ok" THEN "consume" ELSE "forward"
\* lines 121-122 and 127-128: `focus_window(..); return LRESULT(1);`
ReturnAfterFocus(result) == "consume"

\* focus_window returns to line 122 or 128: `return LRESULT(1)`
HookProcConsume ==
    /\ hk_pc = "fw_done"
    /\ hk_ret' = ReturnAfterFocus(fw_result)
    /\ hk_pc' = "ret"
    /\ UNCHANGED << targetVars, listenerVars, foreground, alt_down, evVars,
                    foreground_hwnd, terminal_hwnd, own_moji_hwnd, fw_hwnd, fw_result,
                    os_calls >>

\* the callback has returned: LRESULT(1) ends the dispatch, CallNextHookEx
\* runs the next hook or, after the last one, delivers the event
HookProcReturn ==
    /\ hk_pc = "ret"
    /\ IF hk_ret = "consume"
         THEN /\ ev_outcome' = "consumed"
              /\ ev_pending' = << >>
              /\ hk_pc' = "event_done"
              /\ UNCHANGED ev_forwarded
         ELSE /\ ev_forwarded' = ev_forwarded \cup {Head(ev_pending)}
              /\ ev_pending' = Tail(ev_pending)
              /\ IF Tail(ev_pending) = << >>
                   THEN /\ ev_outcome' = "delivered"
                        /\ hk_pc' = "event_done"
                   ELSE /\ hk_pc' = "call"
                        /\ UNCHANGED ev_outcome
    /\ foreground_hwnd' = 0
    /\ terminal_hwnd' = 0
    /\ own_moji_hwnd' = 0
    /\ hk_ret' = "none"
    /\ fw_hwnd' = 0
    /\ fw_result' = "none"
    /\ os_calls' = << >>
    /\ UNCHANGED << targetVars, listenerVars, foreground, alt_down, ev, ev_fg,
                    ev_activations, ev_raced >>

\* the dispatch of the event is over
EventDone ==
    /\ hk_pc = "event_done"
    /\ hk_pc' = "idle"
    /\ ev' = NoEvent
    /\ ev_fg' = 0
    /\ ev_pending' = << >>
    /\ ev_activations' = << >>
    /\ ev_forwarded' = {}
    /\ ev_outcome' = "none"
    /\ ev_raced' = FALSE
    /\ UNCHANGED << targetVars, listenerVars, foreground, alt_down, cbVars >>

(***************************************************************************)
(* terminal.rs: the process -> window resolver and the paste sequencer.    *)
(* The desktop's top-level windows are listed in enumeration order; they   *)
(* come and go between two calls of the sequencer.                         *)
(***************************************************************************)
\* pids that own windows
WindowPids == {1, 2}
WinHwnd == 1..MaxWinHwnd

\* lists of at most MaxWindows windows with distinct handles
WindowLists ==
    { ws \in UNION { [1..n -> [hwnd : WinHwnd, pid : WindowPids]] : n \in 0..MaxWindows } :
        \A j \in DOMAIN ws : \A k \in DOMAIN ws : j # k => ws[j].hwnd # ws[k].hwnd }

\* EnumWindows with enum_window_proc_by_pid, lines 145-156 and 171-177: the
\* callback is called for the windows from the k-th on, until it returns
\* BOOL(0); the value is context.found_hwnd
RECURSIVE EnumWindowsFrom(_, _, _)
EnumWindowsFrom(ws, k, target_pid) ==
    IF k > Len(ws) THEN None
    ELSE IF ws[k].pid = target_pid THEN Some(ws[k].hwnd)
    ELSE EnumWindowsFrom(ws, k + 1, target_pid)

\* get_window_by_pid, lines 160-178 (one caller: the lock is free)
get_window_by_pid(pid) == EnumWindowsFrom(windows, 1, pid)

Step(name, ok) == [step |-> name, ok |-> ok]

\* (faulty variant of ResolveTarget: without a stored pid or without a window
\* of it, the window in front is taken instead of returning an error)
ResolveTargetForegroundFallback(hwnd_override) ==
    IF hwnd_override # None
      THEN [hwnd |-> hwnd_override, steps |-> << >>, err |-> "none"]
    ELSE IF get_terminal_pid = None
      THEN [hwnd |-> Some(foreground),
            steps |-> << Step("get_terminal_pid", FALSE) >>, err |-> "none"]
    ELSE LET w == get_window_by_pid(get_terminal_pid[1])
         IN  IF w = None
               THEN [hwnd |-> Some(foreground),
                     steps |-> << Step("get_terminal_pid", TRUE),
                                  Step("get_window_by_pid", FALSE) >>,
                     err |-> "none"]
               ELSE [hwnd |-> w,
                     steps |-> << Step("get_terminal_pid", TRUE),
                                  Step("get_window_by_pid", TRUE) >>,
                     err |-> "none"]

\* lines 224-232 and 278-285: the effective target, the lookups made for it
\* and the error, if any
ResolveTarget(hwnd_override) ==
    IF hwnd_override # None
      THEN [hwnd |-> hwnd_override, steps |-> << >>, err |-> "none"]
    ELSE IF get_terminal_pid = None
      THEN [hwnd |-> None,
            steps |-> << Step("get_terminal_pid", FALSE) >>,
            err |-> "Terminal process not found"]
    ELSE LET w == get_window_by_pid(get_terminal_pid[1])
         IN  IF w = None
               THEN [hwnd |-> None,
                     steps |-> << Step("get_terminal_pid", TRUE),
                                  Step("get_window_by_pid", FALSE) >>,
                     err |-> "Could not find window for terminal PID"]
               ELSE [hwnd |-> w,
                     steps |-> << Step("get_terminal_pid", TRUE),
                                  Step("get_window_by_pid", TRUE) >>,
                     err |-> "none"]

\* the threads that call get_window_by_pid, and the state in which none does
EnumThreads == 1..MaxEnumThreads

EnumRest ==
    /\ ENUM_WINDOWS_LOCK = 0
    /\ en_pc = [t \in EnumThreads |-> "idle"]
    /\ en_pid = [t \in EnumThreads |-> 0]
    /\ en_context = [t \in EnumThreads |-> [target_pid |-> 0, found_hwnd |-> None]]
    /\ en_k = [t \in EnumThreads |-> 0]
    /\ en_result = [t \in EnumThreads |-> None]

\* the polling thread before it is spawned; no window has the helper's title
PollRest ==
    /\ helper_hwnd = 0
    /\ poll_pc = "not_started"
    /\ poll_attempts = 0
    /\ poll_sleeps = 0
    /\ poll_stores = 0

\* a process at the start of main, with an empty editor
AppStart ==
    /\ main_pc = "start"
    /\ main_terminal_hwnd = None
    /\ RESIDENT_CONFIG = None
    /\ content = << >>
    /\ status_message = None
    /\ clipboard = None
    /\ upd_pc = "idle"
    /\ upd_trace = << >>

\* the same, for the specifications that do not exercise main and the GUI
AppRest ==
    /\ args_terminal_hwnd = None
    /\ AppStart

PasteIdle ==
    /\ ps_fn = "none"
    /\ ps_pc = "idle"
    /\ ps_override = None
    /\ ps_hwnd = 0
    /\ ps_result = "none"
    /\ ps_trace = << >>
    /\ sfw_calls = << >>

PasteInit ==
    /\ windows \in WindowLists
    /\ PasteIdle

\* the sequencer at rest on an empty desktop, for the other specifications
PasteRest ==
    /\ windows = << >>
    /\ PasteIdle

psVars == << ps_fn, ps_pc, ps_override, ps_hwnd, ps_result, ps_trace, sfw_calls >>

\* a top-level window is created (it is enumerated first) or destroyed
WindowOpens(w) ==
    /\ ps_pc = "idle"
    /\ Len(windows) < MaxWindows
    /\ \A k \in DOMAIN windows : windows[k].hwnd # w.hwnd
    /\ windows' = << w >> \o windows
    /\ UNCHANGED << psVars, foreground, TERMINAL_PID >>

WindowCloses(k) ==
    /\ ps_pc = "idle"
    /\ k \in DOMAIN windows
    /\ windows' = SubSeq(windows, 1, k - 1) \o SubSeq(windows, k + 1, Len(windows))
    /\ UNCHANGED << psVars, foreground, TERMINAL_PID >>

\* paste_to_terminal (fn = "paste", lines 274-285) or send_to_terminal
\* (fn = "send", lines 221-232) is called and resolves its target
PasteCall(fn, hwnd_override) ==
    /\ ps_pc = "idle"
    /\ ps_fn' = fn
    /\ ps_override' = hwnd_override
    /\ LET r == ResolveTarget(hwnd_override) IN
         /\ ps_trace' = r.steps
         /\ IF r.hwnd # None
              THEN /\ ps_hwnd' = r.hwnd[1]
                   /\ ps_pc' = "activate"
                   /\ ps_result' = "none"
              ELSE /\ ps_hwnd' = 0
                   /\ ps_pc' = "returned"
                   /\ ps_result' = r.err
    /\ UNCHANGED << windows, foreground, TERMINAL_PID, sfw_calls >>

\* (faulty variant: the answer of set_foreground_window is not tested)
AfterActivateIgnoringFailure(ok) == "settle1"
\* `if !fg_result { return Err(..) }`, lines 239-241 and 292-294
AfterActivate(ok) == IF ok THEN "settle1" ELSE "returned"

\* (faulty variant: the request is bracketed as focus_window brackets it)
set_foreground_window_bracketed(hwnd) ==
    << OsCall("ShowWindow", hwnd), OsCall("AltDown", 0),
       OsCall("SetForegroundWindow", hwnd), OsCall("AltUp", 0) >>
\* terminal::set_foreground_window, lines 187-192: the OS calls it makes
set_foreground_window(hwnd) == << OsCall("SetForegroundWindow", hwnd) >>

\* set_foreground_window called at lines 237 and 290; the OS accepts or
\* rejects the request (a null handle is always rejected)
PasteActivate ==
    /\ ps_pc = "activate"
    /\ sfw_calls' = sfw_calls \o set_foreground_window(ps_hwnd)
    /\ \E ok \in BOOLEAN :
        /\ (ps_hwnd = 0) => ~ok
        /\ ps_trace' = Append(ps_trace, Step("set_foreground_window", ok))
        /\ foreground' = IF ok THEN ps_hwnd ELSE foreground
        /\ ps_pc' = AfterActivate(ok)
        /\ ps_result' = IF ok THEN ps_result ELSE "Failed to set foreground window"
    /\ UNCHANGED << windows, ps_fn, ps_override, ps_hwnd, TERMINAL_PID >>

\* thread::sleep(150 ms), lines 244 and 297
PasteSettle1 ==
    /\ ps_pc = "settle1"
    /\ ps_trace' = Append(ps_trace, Step("sleep_150ms", TRUE))
    /\ ps_pc' = "enigo_new"
    /\ UNCHANGED << windows, ps_fn, ps_override, ps_hwnd, ps_result, foreground,
                    TERMINAL_PID, sfw_calls >>

\* (faulty variant: the error is dropped and the sequence goes on)
TryIgnoringError(ok, next) == next
\* the `?` applied to a fallible call: go on, or return the error
Try(ok, next) == IF ok THEN next ELSE "returned"

\* one fallible call of the sequencer at pc `at`: logged as `name`, followed
\* by `next`, failing with `err`
FallibleStep(at, name, next, err) ==
    /\ ps_pc = at
    /\ \E ok \in BOOLEAN :
        /\ ps_trace' = Append(ps_trace, Step(name, ok))
        /\ ps_pc' = Try(ok, next)
        /\ ps_result' = IF ok THEN (IF next = "returned" THEN "ok" ELSE ps_result)
                               ELSE err
    /\ UNCHANGED << windows, ps_fn, ps_override, ps_hwnd, foreground, TERMINAL_PID,
                    sfw_calls >>

\* Enigo::new, lines 248-249 and 301-302
PasteEnigoNew ==
    FallibleStep("enigo_new", "Enigo::new",
                 IF ps_fn = "paste" THEN "ctrl_press" ELSE "text",
                 "Failed to create Enigo instance")

\* lines 306-307
PasteCtrlPress ==
    FallibleStep("ctrl_press", "key_Control_Press", "v_click", "Failed to press Ctrl")

\* lines 308-309
PasteVClick ==
    FallibleStep("v_click", "key_v_Click", "ctrl_release", "Failed to press V")

\* lines 310-311
PasteCtrlRelease ==
    FallibleStep("ctrl_release", "key_Control_Release", "settle2", "Failed to release Ctrl")

\* send_to_terminal, lines 253-254: enigo.text("//")
SendText ==
    FallibleStep("text", "text_//", "settle2", "Failed to type text")

\* thread::sleep: 100 ms at line 316, 50 ms at line 258
PasteSettle2 ==
    /\ ps_pc = "settle2"
    /\ ps_trace' = Append(ps_trace,
                          Step(IF ps_fn = "paste" THEN "sleep_100ms" ELSE "sleep_50ms", TRUE))
    /\ ps_pc' = "enter"
    /\ UNCHANGED << windows, ps_fn, ps_override, ps_hwnd, ps_result, foreground,
                    TERMINAL_PID, sfw_calls >>

\* lines 262-266 and 320-324: Enter, then Ok(())
PasteEnter ==
    FallibleStep("enter", "key_Return_Click", "returned", "Failed to press Enter")

\* the caller has the Result; the sequencer is ready for another call
PasteReturn ==
    /\ ps_pc = "returned"
    /\ ps_fn' = "none"
    /\ ps_pc' = "idle"
    /\ ps_override' = None
    /\ ps_hwnd' = 0
    /\ ps_result' = "none"
    /\ ps_trace' = << >>
    /\ sfw_calls' = << >>
    /\ UNCHANGED << windows, foreground, TERMINAL_PID >>

pasteFrame == << locVars, hookRest, enumVars, pollVars, appVars, restVars >>

InitPaste ==
    /\ PasteInit
    /\ HookIdle
    /\ LocIdle
    /\ EnumRest
    /\ PollRest
    /\ AppRest
    /\ CallsRest
    /\ TERMINAL_PID \in {None} \cup { Some(p) : p \in WindowPids }

NextPaste ==
    \/ \E w \in [hwnd : WinHwnd, pid : WindowPids] : WindowOpens(w) /\ UNCHANGED pasteFrame
    \/ \E k \in 1..MaxWindows : WindowCloses(k) /\ UNCHANGED pasteFrame
    \/ \E fn \in {"paste", "send"} :
       \E o \in {None} \cup { Some(h) : h \in 0..MaxWinHwnd } :
            PasteCall(fn, o) /\ UNCHANGED pasteFrame
    \/ PasteActivate /\ UNCHANGED pasteFrame
    \/ PasteSettle1 /\ UNCHANGED pasteFrame
    \/ PasteEnigoNew /\ UNCHANGED pasteFrame
    \/ PasteCtrlPress /\ UNCHANGED pasteFrame
    \/ PasteVClick /\ UNCHANGED pasteFrame
    \/ PasteCtrlRelease /\ UNCHANGED pasteFrame
    \/ SendText /\ UNCHANGED pasteFrame
    \/ PasteSettle2 /\ UNCHANGED pasteFrame
    \/ PasteEnter /\ UNCHANGED pasteFrame
    \/ PasteReturn /\ UNCHANGED pasteFrame

SpecPaste == InitPaste /\ [][NextPaste]_vars

toggleFrame == << locVars, TERMINAL_PID, instances, reg_dom, pasteVars, enumVars,
                 pollVars, appVars,
                 callVars, detachVars >>
hookFrame == << toggleFrame, toggle_from >>

\* everything but the hook engine at rest
OthersRest ==
    LocIdle /\ TERMINAL_PID = None /\ PasteRest /\ EnumRest /\ PollRest /\ AppRest /\ CallsRest

InitHook == HookInit /\ OthersRest
InitHook2 == HookInit2 /\ OthersRest

NextHook ==
    \/ \E i \in instances, h \in Hwnd : set_terminal_hwnd(i, h) /\ UNCHANGED hookFrame
    \/ \E i \in instances, h \in Hwnd : set_own_moji_hwnd(i, h) /\ UNCHANGED hookFrame
    \/ \E w \in Hwnd : ForegroundChange(w) /\ UNCHANGED hookFrame
    \/ \E i \in instances : start_hotkey_listener(i) /\ UNCHANGED hookFrame
    \/ \E i \in instances : ListenerInstall(i) /\ UNCHANGED hookFrame
    \/ \E i \in instances : ListenerLoopEnds(i) /\ UNCHANGED hookFrame
    \/ \E i \in instances : ListenerUnhook(i) /\ UNCHANGED hookFrame
    \/ \E e \in KeyEvents : KeyEvent(e) /\ UNCHANGED hookFrame
    \/ HookProcEntry /\ UNCHANGED hookFrame
    \/ HookProcLoadTerminal /\ UNCHANGED hookFrame
    \/ HookProcDecide /\ UNCHANGED hookFrame
    \/ FocusWindowRestore /\ UNCHANGED hookFrame
    \/ FocusWindowAltDown /\ UNCHANGED hookFrame
    \/ FocusWindowSetForeground /\ UNCHANGED hookFrame
    \/ FocusWindowAltUp /\ UNCHANGED hookFrame
    \/ HookProcConsume /\ UNCHANGED hookFrame
    \/ HookProcReturn /\ UNCHANGED hookFrame
    \/ EventDone /\ UNCHANGED hookFrame

SpecHook == InitHook /\ [][NextHook]_vars
SpecHook2 == InitHook2 /\ [][NextHook]_vars

(***************************************************************************)
(* terminal.rs: get_window_by_pid, one action per step, called by several  *)
(* threads.  Each call has its own EnumWindowsContext (a local of the      *)
(* call); EnumWindows hands the windows to the callback in enumeration     *)
(* order.  The desktop does not change while an enumeration is running.    *)
(***************************************************************************)
\* (faulty variant: the callback notes the match and lets the enumeration go on)
enum_window_proc_keeps_going(context, w) ==
    IF w.pid = context.target_pid
      THEN [context |-> [context EXCEPT !.found_hwnd = Some(w.hwnd)], continue |-> TRUE]
      ELSE [context |-> context, continue |-> TRUE]
\* enum_window_proc_by_pid, lines 145-156: the context after the call for the
\* window w, and whether the enumeration continues (BOOL(1)) or stops (BOOL(0))
enum_window_proc_by_pid(context, w) ==
    IF w.pid = context.target_pid
      THEN [context |-> [context EXCEPT !.found_hwnd = Some(w.hwnd)], continue |-> FALSE]
      ELSE [context |-> context, continue |-> TRUE]

\* (faulty variant: the lock is not taken)
LockAvailableAlways == TRUE
\* line 162: ENUM_WINDOWS_LOCK.lock() returns when no other call holds the lock
LockAvailable == ENUM_WINDOWS_LOCK = 0

\* line 160: a thread calls get_window_by_pid(pid)
EnumCall(t, pid) ==
    /\ en_pc[t] = "idle"
    /\ en_pc' = [en_pc EXCEPT ![t] = "lock"]
    /\ en_pid' = [en_pid EXCEPT ![t] = pid]
    /\ en_result' = [en_result EXCEPT ![t] = None]
    /\ UNCHANGED << ENUM_WINDOWS_LOCK, en_context, en_k, windows >>

\* lines 162-167: the lock is taken and the context set up
EnumLock(t) ==
    /\ en_pc[t] = "lock"
    /\ LockAvailable
    /\ ENUM_WINDOWS_LOCK' = t
    /\ en_context' = [en_context EXCEPT ![t] = [target_pid |-> en_pid[t], found_hwnd |-> None]]
    /\ en_k' = [en_k EXCEPT ![t] = 1]
    /\ en_pc' = [en_pc EXCEPT ![t] = "enum"]
    /\ UNCHANGED << en_pid, en_result, windows >>

\* lines 171-174: EnumWindows calls the callback for the next window, or
\* returns when the callback has stopped it or no window is left
EnumStep(t) ==
    /\ en_pc[t] = "enum"
    /\ IF en_k[t] <= Len(windows)
         THEN LET r == enum_window_proc_by_pid(en_context[t], windows[en_k[t]]) IN
              /\ en_context' = [en_context EXCEPT ![t] = r.context]
              /\ en_k' = [en_k EXCEPT ![t] = en_k[t] + 1]
              /\ en_pc' = [en_pc EXCEPT ![t] = IF r.continue THEN "enum" ELSE "enumerated"]
         ELSE /\ en_pc' = [en_pc EXCEPT ![t] = "enumerated"]
              /\ UNCHANGED << en_context, en_k >>
    /\ UNCHANGED << ENUM_WINDOWS_LOCK, en_pid, en_result, windows >>

\* lines 177-178: context.found_hwnd is returned and the guard dropped
EnumReturn(t) ==
    /\ en_pc[t] = "enumerated"
    /\ en_result' = [en_result EXCEPT ![t] = en_context[t].found_hwnd]
    /\ ENUM_WINDOWS_LOCK' = IF ENUM_WINDOWS_LOCK = t THEN 0 ELSE ENUM_WINDOWS_LOCK
    /\ en_pc' = [en_pc EXCEPT ![t] = "returned"]
    /\ UNCHANGED << en_pid, en_context, en_k, windows >>

\* the caller has the result; the thread may call again
EnumDone(t) ==
    /\ en_pc[t] = "returned"
    /\ en_pc' = [en_pc EXCEPT ![t] = "idle"]
    /\ en_pid' = [en_pid EXCEPT ![t] = 0]
    /\ en_context' = [en_context EXCEPT ![t] = [target_pid |-> 0, found_hwnd |-> None]]
    /\ en_k' = [en_k EXCEPT ![t] = 0]
    /\ en_result' = [en_result EXCEPT ![t] = None]
    /\ UNCHANGED << ENUM_WINDOWS_LOCK, windows >>

\* no call is between taking the lock and handing its result to its caller
NoEnumerationRunning == \A t \in EnumThreads : en_pc[t] \in {"idle", "lock"}

enumFrame == << locVars, TERMINAL_PID, hookVars, psVars, pollVars, appVars, restVars >>

InitEnum ==
    /\ PasteInit
    /\ EnumRest
    /\ PollRest
    /\ AppRest
    /\ CallsRest
    /\ HookIdle
    /\ LocIdle
    /\ TERMINAL_PID = None

NextEnum ==
    \/ \E w \in [hwnd : WinHwnd, pid : WindowPids] :
            NoEnumerationRunning /\ WindowOpens(w) /\ UNCHANGED << enumFrame, enumVars >>
    \/ \E k \in 1..MaxWindows :
            NoEnumerationRunning /\ WindowCloses(k) /\ UNCHANGED << enumFrame, enumVars >>
    \/ \E t \in EnumThreads, pid \in WindowPids : EnumCall(t, pid) /\ UNCHANGED enumFrame
    \/ \E t \in EnumThreads : EnumLock(t) /\ UNCHANGED enumFrame
    \/ \E t \in EnumThreads : EnumStep(t) /\ UNCHANGED enumFrame
    \/ \E t \in EnumThreads : EnumReturn(t) /\ UNCHANGED enumFrame
    \/ \E t \in EnumThreads : EnumDone(t) /\ UNCHANGED enumFrame

SpecEnum == InitEnum /\ [][NextEnum]_vars

\* every thread is scheduled: a step that stays possible is taken
SpecEnumFair ==
    /\ SpecEnum
    /\ \A t \in EnumThreads :
         /\ WF_vars(EnumStep(t) /\ UNCHANGED enumFrame)
         /\ WF_vars(EnumReturn(t) /\ UNCHANGED enumFrame)

(***************************************************************************)
(* app.rs: register_own_hwnd_async, lines 207-220.  The helper's window is *)
(* created by the GUI framework some time after the thread was spawned, or *)
(* never.  It carries the title "MojiBridge-<n>", n the terminal handle or *)
(* 0 (line 225); a title is modelled by its n.                             *)
(***************************************************************************)
\* the bound of `for _ in 0..50`
PollLimit == 50

\* line 225: format!("MojiBridge-{}", config.terminal_hwnd.unwrap_or(0))
WindowTitle(hwnd) == IF hwnd = None THEN 0 ELSE hwnd[1]

\* the title the process gives its window and looks it up by
OwnTitle == WindowTitle(main_terminal_hwnd)

\* terminal::find_window_by_title: the window that carries the title, if any
find_window_by_title(title) ==
    IF helper_hwnd # 0 /\ title = OwnTitle THEN Some(helper_hwnd) ELSE None

\* the GUI framework has created the helper's window
HelperWindowAppears(h) ==
    /\ poll_pc # "not_started"
    /\ helper_hwnd = 0
    /\ h # 0
    /\ helper_hwnd' = h
    /\ UNCHANGED << poll_pc, poll_attempts, poll_sleeps, poll_stores >>

\* line 208: thread::spawn
register_own_hwnd_async ==
    /\ poll_pc = "not_started"
    /\ poll_pc' = "lookup"
    /\ UNCHANGED << helper_hwnd, poll_attempts, poll_sleeps, poll_stores >>

\* (faulty variant: one iteration too many)
PollContinuesOnceMore == poll_attempts <= PollLimit
\* `for _ in 0..50`: another iteration is begun
PollContinues == poll_attempts < PollLimit

\* lines 211-215: the lookup; a window found is registered and the thread ends
PollLookup ==
    /\ poll_pc = "lookup"
    /\ PollContinues
    /\ poll_attempts' = poll_attempts + 1
    /\ LET r == find_window_by_title(OwnTitle) IN
         IF r # None
           THEN /\ set_own_moji_hwnd(1, r[1])
                /\ UNCHANGED << instances, reg_dom >>
                /\ poll_stores' = poll_stores + 1
                /\ poll_pc' = "done"
           ELSE /\ poll_pc' = "sleep"
                /\ UNCHANGED << hookVars, poll_stores >>
    /\ UNCHANGED << helper_hwnd, poll_sleeps >>

\* line 216: thread::sleep(100 ms)
PollSleep ==
    /\ poll_pc = "sleep"
    /\ poll_sleeps' = poll_sleeps + 1
    /\ poll_pc' = "lookup"
    /\ UNCHANGED << helper_hwnd, poll_attempts, poll_stores >>

\* line 218: the loop ran out of iterations; the failure is logged
PollGiveUp ==
    /\ poll_pc = "lookup"
    /\ ~PollContinues
    /\ poll_pc' = "done"
    /\ UNCHANGED << helper_hwnd, poll_attempts, poll_sleeps, poll_stores >>

pollFrame == << locVars, TERMINAL_PID, pasteVars, enumVars, appVars, restVars >>

InitPoll ==
    /\ HookIdle
    /\ OthersRest

NextPoll ==
    \/ \E h \in Hwnd : HelperWindowAppears(h) /\ UNCHANGED << hookVars, pollFrame >>
    \/ register_own_hwnd_async /\ UNCHANGED << hookVars, pollFrame >>
    \/ PollLookup /\ UNCHANGED pollFrame
    \/ PollSleep /\ UNCHANGED << hookVars, pollFrame >>
    \/ PollGiveUp /\ UNCHANGED << hookVars, pollFrame >>

SpecPoll == InitPoll /\ [][NextPoll]_vars

\* the thread is scheduled: a step of it that stays possible is taken
SpecPollFair ==
    /\ SpecPoll
    /\ WF_vars(PollLookup /\ UNCHANGED pollFrame)
    /\ WF_vars(PollSleep /\ UNCHANGED << hookVars, pollFrame >>)
    /\ WF_vars(PollGiveUp /\ UNCHANGED << hookVars, pollFrame >>)

(***************************************************************************)
(* Properties of the polling thread.                                       *)
(***************************************************************************)
\* C17: the polling thread makes at most 50 lookups, with one 100 ms sleep
\* after each failed one; at the first lookup that finds the window it
\* stores the helper target, once, with the handle found, and ends; after
\* 50 failed lookups it ends and has stored nothing; it always ends.
C17_BoundedPolling ==
    /\ [](/\ poll_attempts <= PollLimit
          /\ poll_stores <= 1
          /\ poll_pc = "lookup" => poll_sleeps = poll_attempts /\ poll_stores = 0
          /\ poll_pc = "sleep"  => poll_sleeps = poll_attempts - 1 /\ poll_stores = 0
          /\ poll_pc = "done"
               => IF poll_stores = 1
                    THEN /\ poll_sleeps = poll_attempts - 1
                         /\ helper_hwnd # 0
                         /\ OWN_MOJI_HWND[1] = helper_hwnd
                    ELSE /\ poll_attempts = PollLimit
                         /\ poll_sleeps = PollLimit
                         /\ OWN_MOJI_HWND[1] = 0
          /\ poll_stores = 0 => OWN_MOJI_HWND[1] = 0)
    /\ (poll_pc = "lookup") ~> (poll_pc = "done")

\* the window appeared just before the last lookup
C17_Witness ==
    /\ poll_pc = "done"
    /\ poll_attempts = PollLimit
    /\ poll_sleeps = PollLimit - 1
    /\ poll_stores = 1
    /\ OWN_MOJI_HWND[1] = helper_hwnd

(***************************************************************************)
(* main.rs lines 141-170 and app.rs: the resident process.  main tracks    *)
(* the terminal process, chooses the terminal window, starts the listener  *)
(* and runs the GUI; resident_update (app.rs 63-140) handles one message   *)
(* at a time.  A text is a sequence of characters.                         *)
(***************************************************************************)
mainVars == << args_terminal_hwnd, main_pc, main_terminal_hwnd, RESIDENT_CONFIG >>
updVars  == << content, status_message, clipboard, upd_pc, upd_trace >>

\* texts the user leaves in the editor
SampleTexts ==
    { << >>,
      << " ", "\r", "\n" >>,
      << "a" >>,
      << "a", "\r", "\n", "b" >>,
      << "a", " ", "\r", "\n" >> }

\* app.rs line 72: text.replace("\r\n", "\n")
RECURSIVE ReplaceCrLf(_)
ReplaceCrLf(t) ==
    IF t = << >> THEN << >>
    ELSE IF Len(t) >= 2 /\ t[1] = "\r" /\ t[2] = "\n"
           THEN << "\n" >> \o ReplaceCrLf(SubSeq(t, 3, Len(t)))
           ELSE << t[1] >> \o ReplaceCrLf(Tail(t))

\* app.rs line 73: trim_end()
RECURSIVE TrimEnd(_)
TrimEnd(t) ==
    IF t # << >> /\ t[Len(t)] \in {" ", "\r", "\n"}
      THEN TrimEnd(SubSeq(t, 1, Len(t) - 1))
      ELSE t

\* terminal::get_foreground_window, lines 329-339: None for the null handle
get_foreground_window == IF foreground = 0 THEN None ELSE Some(foreground)

\* (faulty variant: the window in front is not consulted)
StartupTerminalHwndFromArgsOnly == args_terminal_hwnd
\* main.rs line 148: args.terminal_hwnd.or_else(terminal::get_foreground_window)
StartupTerminalHwnd ==
    IF args_terminal_hwnd # None THEN args_terminal_hwnd ELSE get_foreground_window

\* main.rs line 143: init_terminal_tracking stores what find_terminal_pid
\* answers, a pid or absence
MainInitTerminalTracking ==
    /\ main_pc = "start"
    /\ TERMINAL_PID' \in {None} \cup { Some(p) : p \in WindowPids }
    /\ main_pc' = "tracked"
    /\ UNCHANGED << args_terminal_hwnd, main_terminal_hwnd, RESIDENT_CONFIG, updVars,
                    locVars, hookVars, pasteVars, enumVars, pollVars >>

\* main.rs line 148
MainResolveTerminal ==
    /\ main_pc = "tracked"
    /\ main_terminal_hwnd' = StartupTerminalHwnd
    /\ main_pc' = "resolved"
    /\ UNCHANGED << args_terminal_hwnd, RESIDENT_CONFIG, updVars, TERMINAL_PID,
                    locVars, hookVars, pasteVars, enumVars, pollVars >>

\* (faulty variant: the listener is started without a terminal window too)
StartsListenerAlways(hwnd) == TRUE
\* main.rs lines 154-158: start_hotkey_listener is inside
\* `if let Some(hwnd) = terminal_hwnd`
StartsListener(hwnd) == hwnd # None

\* main.rs lines 154-155: with a terminal window, its handle is stored
MainSetTerminalHwnd ==
    /\ main_pc = "resolved"
    /\ IF main_terminal_hwnd # None
         THEN set_terminal_hwnd(1, main_terminal_hwnd[1])
         ELSE UNCHANGED hookVars
    /\ main_pc' = IF StartsListener(main_terminal_hwnd) THEN "target_set" ELSE "gui"
    /\ UNCHANGED << args_terminal_hwnd, main_terminal_hwnd, RESIDENT_CONFIG, updVars,
                    TERMINAL_PID, instances, reg_dom, locVars, pasteVars, enumVars,
                    pollVars >>

\* main.rs line 156
MainStartListener ==
    /\ main_pc = "target_set"
    /\ start_hotkey_listener(1)
    /\ main_pc' = "gui"
    /\ UNCHANGED << args_terminal_hwnd, main_terminal_hwnd, RESIDENT_CONFIG, updVars,
                    TERMINAL_PID, instances, reg_dom, locVars, pasteVars, enumVars,
                    pollVars >>

\* (faulty variant: the configuration takes the handle of the command line)
ConfiguredTerminalHwndFromArgs == args_terminal_hwnd
\* main.rs lines 160-165 and app.rs 228-231: the configuration's handle is
\* the local terminal_hwnd of main, the one given to set_terminal_hwnd
ConfiguredTerminalHwnd == main_terminal_hwnd

\* main.rs lines 160-167 and app.rs 223-260: the configuration is stored,
\* the polling thread is spawned and the GUI runs
RunResidentGui ==
    /\ main_pc = "gui"
    /\ RESIDENT_CONFIG' = Some([terminal_hwnd |-> ConfiguredTerminalHwnd,
                                window_title |-> WindowTitle(ConfiguredTerminalHwnd)])
    /\ register_own_hwnd_async
    /\ main_pc' = "running"
    /\ UNCHANGED << args_terminal_hwnd, main_terminal_hwnd, updVars, TERMINAL_PID,
                    locVars, hookVars, pasteVars, enumVars >>

\* app.rs line 82: get_config().and_then(|c| c.terminal_hwnd)
ConfigTerminalHwnd ==
    IF RESIDENT_CONFIG = None THEN None ELSE RESIDENT_CONFIG[1].terminal_hwnd

\* resident_update is entered with the GUI running and no message in work
UpdateReady ==
    /\ main_pc = "running"
    /\ upd_pc = "idle"

\* Message::EditorAction, lines 65-67
AppEdit(t) ==
    /\ UpdateReady
    /\ content # t
    /\ content' = t
    /\ UNCHANGED << status_message, clipboard, upd_pc, upd_trace, mainVars,
                    TERMINAL_PID, locVars, hookVars, pasteVars, enumVars, pollVars >>

\* (faulty variant: the paste sequencer is called after a failed write too)
AfterClipboardWriteIgnoringError(ok) == "paste"
\* lines 76-79: `if let Err(e) = write_to_clipboard(..) { ..; return Task::none(); }`
AfterClipboardWrite(ok) == IF ok THEN "paste" ELSE "returned"

\* Message::Submit, lines 69-84 (also sent by Ctrl+Enter, lines 126-136): the
\* text is normalised; an empty one is dropped; otherwise the clipboard is
\* written and paste_to_terminal is called with the configured handle
AppSubmit ==
    /\ UpdateReady
    /\ LET input_text == TrimEnd(ReplaceCrLf(content)) IN
         IF input_text = << >>
           THEN /\ upd_trace' = << Step("Submit", TRUE) >>
                /\ upd_pc' = "returned"
                /\ UNCHANGED << status_message, clipboard, psVars >>
           ELSE \E ok \in BOOLEAN :
                /\ upd_trace' = << Step("Submit", TRUE), Step("write_to_clipboard", ok) >>
                /\ clipboard' = IF ok THEN Some(input_text) ELSE clipboard
                /\ IF AfterClipboardWrite(ok) = "paste"
                     THEN /\ PasteCall("paste", ConfigTerminalHwnd)
                          /\ upd_pc' = "paste"
                          /\ UNCHANGED status_message
                     ELSE /\ status_message' = Some("Clipboard error")
                          /\ upd_pc' = "returned"
                          /\ UNCHANGED psVars
    /\ UNCHANGED << content, mainVars, windows, TERMINAL_PID, locVars, hookVars,
                    enumVars, pollVars >>

\* (faulty variant: the editor is cleared after a failed delivery too)
ContentAfterDeliveryAlwaysCleared(result) == << >>
\* lines 84-90: `return Task::none()` on Err leaves the text; line 90 clears it
ContentAfterDelivery(result) == IF result = "ok" THEN << >> ELSE content

\* lines 84-94: paste_to_terminal has returned; an error is shown, a
\* success clears the editor and the status line
AppPasteDone ==
    /\ upd_pc = "paste"
    /\ PasteReturn
    /\ content' = ContentAfterDelivery(ps_result)
    /\ status_message' = IF ps_result = "ok" THEN None ELSE Some("Send error")
    /\ upd_pc' = "idle"
    /\ upd_trace' = << >>
    /\ UNCHANGED << clipboard, mainVars, locVars, hookVars, enumVars, pollVars >>

\* terminal::send_to_terminal (terminal.rs 221-267) is public and has no
\* caller in the repository; a caller in the resident process passes the
\* configured handle as Submit does
AppSendCall ==
    /\ UpdateReady
    /\ PasteCall("send", ConfigTerminalHwnd)
    /\ upd_pc' = "send"
    /\ upd_trace' = << Step("send_to_terminal", TRUE) >>
    /\ UNCHANGED << content, status_message, clipboard, mainVars, locVars, hookRest,
                    enumVars, pollVars >>

\* send_to_terminal has returned to that caller
AppSendDone ==
    /\ upd_pc = "send"
    /\ PasteReturn
    /\ upd_pc' = "idle"
    /\ upd_trace' = << >>
    /\ UNCHANGED << content, status_message, clipboard, mainVars, locVars, hookVars,
                    enumVars, pollVars >>

\* Ctrl+I pressed in the helper's window, lines 110-122: with a configured
\* terminal window, set_foreground_window is called and its answer dropped
AppCtrlI ==
    /\ UpdateReady
    /\ upd_trace' = << Step("CtrlI", TRUE) >>
    /\ upd_pc' = "returned"
    /\ IF ConfigTerminalHwnd # None
         THEN /\ sfw_calls' = sfw_calls \o set_foreground_window(ConfigTerminalHwnd[1])
              /\ \E ok \in BOOLEAN :
                   foreground' = IF ok THEN ConfigTerminalHwnd[1] ELSE foreground
         ELSE UNCHANGED << sfw_calls, foreground >>
    /\ UNCHANGED << content, status_message, clipboard, mainVars, TERMINAL_PID,
                    windows, ps_fn, ps_pc, ps_override, ps_hwnd, ps_result, ps_trace,
                    locVars, hookRest, enumVars, pollVars >>

\* a window-focused event, lines 97-108: the helper's window is looked up by
\* the configured title and, when found, stored as the helper target
AppFocused ==
    /\ UpdateReady
    /\ helper_hwnd # 0
    /\ upd_trace' = << Step("Focused", TRUE) >>
    /\ upd_pc' = "returned"
    /\ LET own_hwnd == find_window_by_title(RESIDENT_CONFIG[1].window_title) IN
         IF own_hwnd # None
           THEN set_own_moji_hwnd(1, own_hwnd[1])
           ELSE UNCHANGED hookVars
    /\ UNCHANGED << content, status_message, clipboard, mainVars, TERMINAL_PID,
                    instances, reg_dom, locVars, pasteVars, enumVars, pollVars >>

\* resident_update returns Task::none()
AppUpdateReturn ==
    /\ upd_pc = "returned"
    /\ upd_pc' = "idle"
    /\ upd_trace' = << >>
    /\ sfw_calls' = << >>
    /\ UNCHANGED << content, status_message, clipboard, mainVars, TERMINAL_PID,
                    windows, ps_fn, ps_pc, ps_override, ps_hwnd, ps_result, ps_trace,
                    locVars, hookVars, enumVars, pollVars >>

\* the desktops the resident process is started on
AppWindowLists == { ws \in WindowLists : Len(ws) <= 1 }

InitApp ==
    /\ HookInit
    /\ foreground \in 0..MaxWinHwnd
    /\ LocIdle
    /\ TERMINAL_PID = None
    /\ windows \in AppWindowLists
    /\ PasteIdle
    /\ EnumRest
    /\ PollRest
    /\ AppStart
    /\ CallsRest
    /\ args_terminal_hwnd \in {None} \cup { Some(h) : h \in WinHwnd }

NextApp ==
    \/ MainInitTerminalTracking /\ UNCHANGED restVars
    \/ MainResolveTerminal /\ UNCHANGED restVars
    \/ MainSetTerminalHwnd /\ UNCHANGED restVars
    \/ MainStartListener /\ UNCHANGED restVars
    \/ ListenerInstall(1) /\ UNCHANGED hookFrame
    \/ RunResidentGui /\ UNCHANGED restVars
    \/ \E w \in 0..MaxWinHwnd : ForegroundChange(w) /\ UNCHANGED hookFrame
    \/ \E t \in SampleTexts : AppEdit(t) /\ UNCHANGED restVars
    \/ AppSubmit /\ UNCHANGED restVars
    \/ PasteActivate /\ UNCHANGED pasteFrame
    \/ PasteSettle1 /\ UNCHANGED pasteFrame
    \/ PasteEnigoNew /\ UNCHANGED pasteFrame
    \/ PasteCtrlPress /\ UNCHANGED pasteFrame
    \/ PasteVClick /\ UNCHANGED pasteFrame
    \/ PasteCtrlRelease /\ UNCHANGED pasteFrame
    \/ PasteSettle2 /\ UNCHANGED pasteFrame
    \/ PasteEnter /\ UNCHANGED pasteFrame
    \/ AppPasteDone /\ UNCHANGED restVars
    \/ AppSendCall /\ UNCHANGED restVars
    \/ SendText /\ UNCHANGED pasteFrame
    \/ AppSendDone /\ UNCHANGED restVars
    \/ AppCtrlI /\ UNCHANGED restVars
    \/ AppUpdateReturn /\ UNCHANGED restVars

SpecApp == InitApp /\ [][NextApp]_vars

(***************************************************************************)
(* The resident process with the writers of the hook's targets: main, the  *)
(* polling thread and the window-focused events of the GUI.                *)
(***************************************************************************)
NextResident ==
    \/ MainInitTerminalTracking /\ UNCHANGED restVars
    \/ MainResolveTerminal /\ UNCHANGED restVars
    \/ MainSetTerminalHwnd /\ UNCHANGED restVars
    \/ MainStartListener /\ UNCHANGED restVars
    \/ ListenerInstall(1) /\ UNCHANGED hookFrame
    \/ RunResidentGui /\ UNCHANGED restVars
    \/ \E h \in Hwnd : /\ Some(h) # main_terminal_hwnd
                       /\ HelperWindowAppears(h)
                       /\ UNCHANGED << hookVars, pollFrame >>
    \/ PollLookup /\ UNCHANGED pollFrame
    \/ PollSleep /\ UNCHANGED << hookVars, pollFrame >>
    \/ PollGiveUp /\ UNCHANGED << hookVars, pollFrame >>
    \/ AppFocused /\ UNCHANGED restVars
    \/ AppUpdateReturn /\ UNCHANGED restVars

SpecResident == InitApp /\ [][NextResident]_vars

(***************************************************************************)
(* Properties of the resident process.                                     *)
(***************************************************************************)
\* the calls of a log that ask the OS to bring a window to the front
ActivationRequests(log) == { k \in DOMAIN log : log[k].call = "SetForegroundWindow" }

\* the window a running handler asks for: the sequencer's target, or the
\* configured terminal window in the Ctrl+I handler
RequestedWindow ==
    IF ps_fn # "none" THEN ps_hwnd
    ELSE IF ConfigTerminalHwnd # None THEN ConfigTerminalHwnd[1] ELSE 0

NoTerminalFound == main_pc # "start" /\ TERMINAL_PID = None

\* a delivery (Submit or send_to_terminal) made without an explicit handle
DeliveryWithoutHandle == ps_fn # "none" /\ ps_override = None

\* start-up after the locator found nothing: main took the supplied handle,
\* else the window in front; with a target the handle is stored and the
\* listener started, and the GUI runs with that target in its configuration
StartupContinues ==
    /\ main_pc \in {"target_set", "gui", "running"} /\ main_terminal_hwnd # None
         => TERMINAL_HWND[1] = main_terminal_hwnd[1]
    /\ main_pc \in {"gui", "running"}
         => (listener[1] # "not_started") <=> (main_terminal_hwnd # None)
    /\ main_pc = "running"
         => /\ RESIDENT_CONFIG # None
            /\ ConfigTerminalHwnd = main_terminal_hwnd

\* the step of main that chooses the terminal window takes the supplied
\* handle, and without one the window in front at that moment
ChoosesSuppliedOrForeground ==
    (main_pc = "tracked" /\ main_pc' = "resolved")
        => main_terminal_hwnd' = IF args_terminal_hwnd # None THEN args_terminal_hwnd
                                 ELSE IF foreground = 0 THEN None
                                 ELSE Some(foreground)

\* C19 as stated: when the locator finds no terminal, start-up continues
\* with the supplied handle or the window in front, and a delivery without an
\* explicit handle uses the window currently in front and returns no error.
C19_AsClaimed ==
    NoTerminalFound
        => /\ StartupContinues
           /\ DeliveryWithoutHandle => ps_result # "Terminal process not found"

\* C19: when the locator finds no terminal, resident start-up goes on with
\* the supplied handle or, without one, the window in front as terminal
\* target; a delivery made without an explicit handle does not fall back to
\* the window in front: it returns "Terminal process not found" with no
\* activation request and no keystroke.
C19_StartupContinuesDeliveryFails ==
    /\ [](NoTerminalFound
            => /\ StartupContinues
               /\ DeliveryWithoutHandle
                    => /\ ps_pc = "returned"
                       /\ ps_result = "Terminal process not found"
                       /\ ps_trace = << Step("get_terminal_pid", FALSE) >>
                       /\ sfw_calls = << >>)
    /\ [][TERMINAL_PID' = None => ChoosesSuppliedOrForeground]_vars

\* start-up went on without a terminal and without a window in front; later
\* a window is in front and a Submit returns the error
C19_Witness ==
    /\ NoTerminalFound
    /\ main_pc = "running"
    /\ ConfigTerminalHwnd = None
    /\ foreground # 0
    /\ upd_pc = "paste"
    /\ DeliveryWithoutHandle
    /\ ps_result = "Terminal process not found"

\* the listener thread of the resident process has been started
ListenerStarted == listener[1] # "not_started"

\* C27: in the resident process the terminal target is stored before the
\* listener thread is started, the listener is started only with a known
\* terminal handle, and the terminal target is not written afterwards; the
\* helper target is written only by the polling thread and by the handler
\* of window-focused events, with the handle a successful lookup of the
\* helper's own window returned, and is never reset to unset.
C27_TargetWriters ==
    /\ [](ListenerStarted
            => /\ main_terminal_hwnd # None
               /\ TERMINAL_HWND[1] = main_terminal_hwnd[1])
    /\ [][TERMINAL_HWND' # TERMINAL_HWND
            => /\ main_pc = "resolved"
               /\ ~ListenerStarted
               /\ ~ListenerStarted']_vars
    /\ [][ListenerStarted => TERMINAL_HWND' = TERMINAL_HWND]_vars
    /\ [][OWN_MOJI_HWND' # OWN_MOJI_HWND
            => /\ helper_hwnd # 0
               /\ find_window_by_title(OwnTitle) = Some(helper_hwnd)
               /\ OWN_MOJI_HWND'[1] = helper_hwnd
               /\ \/ poll_pc = "lookup" /\ poll_pc' = "done" /\ poll_stores' = poll_stores + 1
                  \/ upd_pc = "idle" /\ upd_trace' = << Step("Focused", TRUE) >>]_vars
    /\ [][OWN_MOJI_HWND[1] # 0 => OWN_MOJI_HWND'[1] # 0]_vars

\* the listener runs with the terminal target stored, and a window-focused
\* event has stored the helper target before the polling thread found the
\* window
C27_Witness ==
    /\ listener[1] = "active"
    /\ TERMINAL_HWND[1] # 0
    /\ TERMINAL_HWND[1] = main_terminal_hwnd[1]
    /\ upd_trace = << Step("Focused", TRUE) >>
    /\ poll_stores = 0
    /\ poll_pc = "sleep"
    /\ OWN_MOJI_HWND[1] = helper_hwnd
    /\ helper_hwnd # 0

\* C30: in the resident process, whenever the hook's terminal target is set
\* and the configuration is stored, the target is the configuration's
\* terminal handle; Submit passes that handle to paste_to_terminal, which
\* delivers to it, and the helper's Ctrl+I handler activates it; the
\* configuration, once stored, never changes, and neither does the target.
C30_OneTerminalWindow ==
    /\ []((RESIDENT_CONFIG # None /\ TERMINAL_HWND[1] # 0)
            => ConfigTerminalHwnd = Some(TERMINAL_HWND[1]))
    /\ [](upd_pc = "paste"
            => /\ ps_fn = "paste"
               /\ ps_override = ConfigTerminalHwnd
               /\ TERMINAL_HWND[1] # 0 => ps_hwnd = TERMINAL_HWND[1])
    /\ []((upd_pc = "returned" /\ sfw_calls # << >>)
            => /\ ConfigTerminalHwnd # None
               /\ \A k \in DOMAIN sfw_calls : sfw_calls[k].hwnd = ConfigTerminalHwnd[1]
               /\ TERMINAL_HWND[1] = ConfigTerminalHwnd[1])
    /\ [][/\ RESIDENT_CONFIG # None => RESIDENT_CONFIG' = RESIDENT_CONFIG
          /\ TERMINAL_HWND[1] # 0 => TERMINAL_HWND' = TERMINAL_HWND]_vars

\* a Submit is being delivered to the window that was in front at start-up
\* and is the hook's terminal target, while another window is in front
C30_Witness ==
    /\ upd_pc = "paste"
    /\ args_terminal_hwnd = None
    /\ TERMINAL_HWND[1] # 0
    /\ ps_pc = "enter"
    /\ ps_hwnd = TERMINAL_HWND[1]
    /\ ConfigTerminalHwnd = Some(TERMINAL_HWND[1])
    /\ foreground \notin {0, TERMINAL_HWND[1]}

\* the steps that end a Submit, told by the position of resident_update:
\* the handler returns from the empty-text branch, from the clipboard error,
\* or with the result of paste_to_terminal
UpdateTraceOfDelivery ==
    upd_trace = << Step("Submit", TRUE), Step("write_to_clipboard", TRUE) >>
SubmitEndsEmpty ==
    upd_pc = "idle" /\ upd_trace' = << Step("Submit", TRUE) >>
SubmitEndsClipboardError ==
    upd_pc = "idle" /\ upd_trace' = << Step("Submit", TRUE), Step("write_to_clipboard", FALSE) >>
SubmitEndsDelivery ==
    upd_pc = "paste" /\ upd_pc' = "idle"

\* C26: a Submit ends in exactly one of three ways.  Delivery succeeded:
\* the editor is cleared and the status message is cleared.  The clipboard
\* write or the delivery failed: the editor's text is unchanged and the
\* status message holds the error.  The text is empty once its trailing
\* whitespace is removed: no clipboard write, no delivery, and editor,
\* status message and clipboard are unchanged.
C26_SubmitOutcomes ==
    /\ [][/\ SubmitEndsEmpty
               => /\ TrimEnd(ReplaceCrLf(content)) = << >>
                  /\ UNCHANGED << content, status_message, clipboard, psVars, foreground >>
          /\ SubmitEndsClipboardError
               => /\ TrimEnd(ReplaceCrLf(content)) # << >>
                  /\ content' = content
                  /\ status_message' = Some("Clipboard error")
                  /\ UNCHANGED psVars
          /\ SubmitEndsDelivery
               => /\ ps_result # "none"
                  /\ IF ps_result = "ok"
                       THEN content' = << >> /\ status_message' = None
                       ELSE content' = content /\ status_message' = Some("Send error")
          /\ (upd_pc = "idle" /\ upd_pc' = "paste")
               => /\ TrimEnd(ReplaceCrLf(content)) # << >>
                  /\ UNCHANGED << content, status_message >>]_vars
    /\ [](upd_pc = "paste" => UpdateTraceOfDelivery)

\* a delivery failed after the text was pasted: the text is still in the
\* editor and the error is shown
C26_Witness ==
    /\ upd_pc = "idle"
    /\ main_pc = "running"
    /\ content = << "a", "\r", "\n", "b" >>
    /\ status_message = Some("Send error")
    /\ clipboard = Some(<< "a", "\n", "b" >>)

\* the text a Submit delivers: the editor's text as lines 72-73 normalise it
SubmittedText == TrimEnd(ReplaceCrLf(content))

\* C20: on a Submit with non-empty text the clipboard holds the submitted
\* text, written successfully, whenever the paste sequencer is in a call made
\* by the Submit; paste_to_terminal is called by a Submit only; and after a
\* failed clipboard write the sequencer is not called: the handler returns
\* with the clipboard error shown, no activation request and no keystroke.
C20_ClipboardBeforePaste ==
    /\ ps_fn = "paste" <=> upd_pc = "paste"
    /\ upd_pc = "paste"
         => /\ SubmittedText # << >>
            /\ upd_trace = << Step("Submit", TRUE), Step("write_to_clipboard", TRUE) >>
            /\ clipboard = Some(SubmittedText)
    /\ (\E k \in DOMAIN upd_trace : upd_trace[k] = Step("write_to_clipboard", FALSE))
         => /\ SubmittedText # << >>
            /\ upd_pc = "returned"
            /\ status_message = Some("Clipboard error")
            /\ ps_fn = "none"
            /\ ps_trace = << >>
            /\ sfw_calls = << >>

\* a Submit of "a\r\nb" has put "a\nb" on the clipboard and the sequencer has
\* delivered the chord and Enter
C20_Witness ==
    /\ upd_pc = "paste"
    /\ content = << "a", "\r", "\n", "b" >>
    /\ clipboard = Some(<< "a", "\n", "b" >>)
    /\ ps_pc = "returned"
    /\ ps_result = "ok"
    /\ sfw_calls # << >>

(***************************************************************************)
(* Properties of get_window_by_pid.                                        *)
(***************************************************************************)
\* the places in the enumeration order of the windows owned by pid
PlacesOf(pid) == { k \in DOMAIN windows : windows[k].pid = pid }
FirstPlaceOf(pid) == CHOOSE k \in PlacesOf(pid) : \A j \in PlacesOf(pid) : k <= j

\* the calls of the callback the running enumeration of thread t has made
CallbacksMade(t) == en_k[t] - 1

\* C12: get_window_by_pid(pid) returns the first window, in enumeration
\* order, that pid owns, and the enumeration stops there; when pid owns no
\* window every window is visited once and absence is returned, at every
\* call; no enumeration visits more windows than there are.
C12_FirstWindowOfPid ==
    \A t \in EnumThreads :
        /\ en_pc[t] \in {"enum", "enumerated", "returned"}
             => CallbacksMade(t) <= Len(windows)
        /\ en_pc[t] \in {"enumerated", "returned"}
             => IF PlacesOf(en_pid[t]) = {}
                  THEN /\ en_context[t].found_hwnd = None
                       /\ CallbacksMade(t) = Len(windows)
                  ELSE /\ en_context[t].found_hwnd = Some(windows[FirstPlaceOf(en_pid[t])].hwnd)
                       /\ CallbacksMade(t) = FirstPlaceOf(en_pid[t])
        /\ en_pc[t] = "returned"
             => /\ en_result[t] = en_context[t].found_hwnd
                /\ en_result[t] = get_window_by_pid(en_pid[t])

\* pid 1 owns both windows: the first is returned after one call of the
\* callback
C12_Witness ==
    /\ Len(windows) = 2
    /\ PlacesOf(1) = {1, 2}
    /\ en_pc[1] = "returned"
    /\ en_pid[1] = 1
    /\ en_result[1] = Some(windows[1].hwnd)
    /\ CallbacksMade(1) = 1

\* the calls that are between taking the lock and dropping it
Enumerating == { t \in EnumThreads : en_pc[t] \in {"enum", "enumerated"} }

EnumExclusion ==
    /\ Cardinality(Enumerating) <= 1
    /\ \A t \in EnumThreads :
         /\ ENUM_WINDOWS_LOCK = t <=> t \in Enumerating
         /\ t \in Enumerating => en_context[t].target_pid = en_pid[t]
         /\ en_pc[t] = "returned"
              => \/ en_result[t] = None
                 \/ \E k \in DOMAIN windows :
                        windows[k] = [hwnd |-> en_result[t][1], pid |-> en_pid[t]]
    /\ ENUM_WINDOWS_LOCK \in {0} \cup EnumThreads

ResolutionSteps == {"get_terminal_pid", "get_window_by_pid"}
Keystrokes == {"key_Control_Press", "key_v_Click", "key_Control_Release", "text_//",
               "key_Return_Click"}

\* the calls of a complete delivery, in order (the Enigo instance is created
\* after the first delay)
PasteOrder == << "set_foreground_window", "sleep_150ms", "Enigo::new",
                 "key_Control_Press", "key_v_Click", "key_Control_Release",
                 "sleep_100ms", "key_Return_Click" >>
SendOrder  == << "set_foreground_window", "sleep_150ms", "Enigo::new", "text_//",
                 "sleep_50ms", "key_Return_Click" >>
OrderOf(fn) == IF fn = "paste" THEN PasteOrder ELSE SendOrder

IsPrefix(a, b) == Len(a) <= Len(b) /\ a = SubSeq(b, 1, Len(a))

\* the names of the calls made after the target was resolved
DeliveryNames ==
    LET d == SelectSeq(ps_trace, LAMBDA c : c.step \notin ResolutionSteps)
    IN  [k \in 1..Len(d) |-> d[k].step]

KeystrokeAttempted == \E k \in DOMAIN ps_trace : ps_trace[k].step \in Keystrokes
ActivationFailed ==
    \E k \in DOMAIN ps_trace : ps_trace[k] = Step("set_foreground_window", FALSE)

\* C3: in every run of paste_to_terminal and send_to_terminal the steps come
\* in the order activation, 150 ms delay, content (Ctrl down, v, Ctrl up, or
\* the typed "//"), second delay, Enter; a keystroke is attempted only after
\* an activation that reported success; a failed activation makes the call
\* return an error with no keystroke attempted.
C3_DeliveryOrder ==
    (ps_fn # "none")
    => /\ IsPrefix(DeliveryNames, OrderOf(ps_fn))
       /\ \A k \in DOMAIN ps_trace :
            ps_trace[k].step \in Keystrokes
            => \E j \in 1..(k - 1) : ps_trace[j] = Step("set_foreground_window", TRUE)
       /\ ActivationFailed
            => /\ ps_pc = "returned"
               /\ ps_result = "Failed to set foreground window"
               /\ ~KeystrokeAttempted
       /\ (ps_pc = "returned" /\ ps_result = "ok") => DeliveryNames = OrderOf(ps_fn)

C3_Witness ==
    /\ ps_fn = "paste"
    /\ ps_pc = "returned"
    /\ ps_result = "ok"
    /\ DeliveryNames = PasteOrder

\* C8: in one call every step is attempted at most once; a failed step is
\* the last step of the call, which then returns an error; in particular a
\* failed Enter after the paste chord leaves the content pasted and is an
\* error, not a retry.
C8_AbortAtFirstFailure ==
    (ps_fn # "none")
    => /\ \A j \in DOMAIN ps_trace : \A k \in DOMAIN ps_trace :
            j # k => ps_trace[j].step # ps_trace[k].step
       /\ \A k \in DOMAIN ps_trace :
            ~ps_trace[k].ok
            => /\ k = Len(ps_trace)
               /\ ps_pc = "returned"
               /\ ps_result \notin {"none", "ok"}
       /\ ps_pc = "returned" => ps_result # "none"
       /\ (ps_pc = "returned" /\ ps_result = "ok")
            => \A k \in DOMAIN ps_trace : ps_trace[k].ok

\* pasted, Enter rejected
C8_Witness ==
    /\ ps_fn = "paste"
    /\ ps_pc = "returned"
    /\ ps_result = "Failed to press Enter"
    /\ Step("key_v_Click", TRUE) \in { ps_trace[k] : k \in DOMAIN ps_trace }
    /\ Step("key_Control_Release", TRUE) \in { ps_trace[k] : k \in DOMAIN ps_trace }
    /\ ps_trace[Len(ps_trace)] = Step("key_Return_Click", FALSE)

\* the calls paste_to_terminal has made, and whether a call is among them
TraceSteps == { ps_trace[k] : k \in DOMAIN ps_trace }
ControlPressed == Step("key_Control_Press", TRUE) \in TraceSteps

WindowsOfTerminalPid ==
    IF TERMINAL_PID = None THEN {}
    ELSE { windows[k].hwnd : k \in { j \in DOMAIN windows : windows[j].pid = TERMINAL_PID[1] } }

\* C9: the effective target is the override whenever one is given, and then
\* neither the pid nor the windows are looked up; otherwise it is a window
\* of the stored terminal pid as the desktop is at this call, found by one
\* enumeration; without a stored pid or without a window of it the call has
\* returned an error and made no activation request and no keystroke.
C9_EffectiveTarget ==
    (ps_pc # "idle")
    => IF ps_override # None
         THEN /\ ps_pc # "returned" => ps_hwnd = ps_override[1]
              /\ \A k \in DOMAIN ps_trace : ps_trace[k].step \notin ResolutionSteps
       ELSE IF WindowsOfTerminalPid = {}
         THEN /\ ps_pc = "returned"
              /\ ps_result \in {"Terminal process not found",
                                "Could not find window for terminal PID"}
              /\ DeliveryNames = << >>
       ELSE /\ ps_pc # "returned" => ps_hwnd \in WindowsOfTerminalPid
            /\ SubSeq(ps_trace, 1, 2) = << Step("get_terminal_pid", TRUE),
                                          Step("get_window_by_pid", TRUE) >>
            /\ \A k \in DOMAIN ps_trace : k > 2 => ps_trace[k].step \notin ResolutionSteps

\* an earlier call brought another window to the front; this call has
\* looked up the terminal's window anew
C9_Witness ==
    /\ ps_pc = "activate"
    /\ ps_override = None
    /\ ps_hwnd \in WindowsOfTerminalPid
    /\ foreground # 0
    /\ foreground # ps_hwnd
    /\ foreground \notin WindowsOfTerminalPid

(***************************************************************************)
(* Properties of the hook callback and of focus_window.                    *)
(***************************************************************************)
\* the windows whose activation the running callback has requested, in order
Requested ==
    LET sel == SelectSeq(os_calls, LAMBDA c : c.call = "SetForegroundWindow")
    IN  [k \in 1..Len(sel) |-> sel[k].hwnd]

\* the callback has handled the chord and is about to return
ChordHandled == hk_pc = "ret" /\ IsTriggerChord(ev)

\* C1: with both targets set and different, a chord handled while the
\* terminal is in front requests exactly one activation, of the helper, and
\* is consumed; while the helper is in front, exactly one, of the terminal,
\* and is consumed; while any other window is in front, none, and the event
\* is forwarded to the next hook.
C1_ToggleContract ==
    (/\ ChordHandled
     /\ terminal_hwnd # 0
     /\ own_moji_hwnd # 0
     /\ terminal_hwnd # own_moji_hwnd)
    => IF foreground_hwnd = terminal_hwnd
         THEN Requested = << own_moji_hwnd >> /\ hk_ret = "consume"
       ELSE IF foreground_hwnd = own_moji_hwnd
         THEN Requested = << terminal_hwnd >> /\ hk_ret = "consume"
       ELSE Requested = << >> /\ hk_ret = "forward"

C1_Witness ==
    /\ ChordHandled
    /\ terminal_hwnd # 0
    /\ own_moji_hwnd # 0
    /\ terminal_hwnd # own_moji_hwnd
    /\ foreground_hwnd = own_moji_hwnd
    /\ Requested = << terminal_hwnd >>
    /\ hk_ret = "consume"

\* C2: while the terminal target is unset, every chord is forwarded and no
\* activation is requested, whatever the foreground window and the helper
\* target are (a helper target equal to the foreground window included).
C2_UnsetTerminalForwards ==
    (ChordHandled /\ terminal_hwnd = 0)
    => (hk_ret = "forward" /\ Requested = << >> /\ os_calls = << >>)

C2_Witness ==
    /\ ChordHandled
    /\ terminal_hwnd = 0
    /\ own_moji_hwnd # 0
    /\ foreground_hwnd = own_moji_hwnd
    /\ hk_ret = "forward"

PairSet(i) ==
    /\ TERMINAL_HWND[i] # 0
    /\ OWN_MOJI_HWND[i] # 0
    /\ TERMINAL_HWND[i] # OWN_MOJI_HWND[i]
Pair(i) == {TERMINAL_HWND[i], OWN_MOJI_HWND[i]}
OtherOfPair(i, w) == IF w = TERMINAL_HWND[i] THEN OWN_MOJI_HWND[i] ELSE TERMINAL_HWND[i]

\* a chord has gone through the hooks of two instances with complete,
\* disjoint pairs that were not overwritten meanwhile
TwoPairsChordDone ==
    /\ hk_pc = "event_done"
    /\ IsTriggerChord(ev)
    /\ ~ev_raced
    /\ Len(CallableHooks) = 2
    /\ \A i \in Inst : PairSet(i)
    /\ Pair(1) \cap Pair(2) = {}

\* C7: two instances with disjoint pairs and both hooks installed: a chord
\* while a window of one pair is in front causes exactly one activation
\* request in all, by that pair's instance for the pair's other window, and
\* is consumed, whichever hook is called first; a chord while a window of
\* neither pair is in front is forwarded by both and delivered to the
\* application, with no activation request.
C7_PairsDoNotInterfere ==
    TwoPairsChordDone
    => /\ \A i \in Inst :
            ev_fg \in Pair(i)
            => /\ ev_activations = << [inst |-> i, hwnd |-> OtherOfPair(i, ev_fg)] >>
               /\ ev_outcome = "consumed"
       /\ ev_fg \notin (Pair(1) \cup Pair(2))
            => /\ ev_activations = << >>
               /\ ev_outcome = "delivered"
               /\ ev_forwarded = Inst

\* the hook of instance 2 was called first and passed the chord on
C7_Witness ==
    /\ TwoPairsChordDone
    /\ CallableHooks = << 2, 1 >>
    /\ ev_fg \in Pair(1)
    /\ ev_activations = << [inst |-> 1, hwnd |-> OtherOfPair(1, ev_fg)] >>
    /\ ev_forwarded = {2}
    /\ ev_outcome = "consumed"

\* the four OS calls of focus_window(h), in order
FocusWindowCalls(h) ==
    << OsCall("ShowWindow", h), OsCall("AltDown", 0),
       OsCall("SetForegroundWindow", h), OsCall("AltUp", 0) >>

\* the calls focus_window has made when it is at pc
FocusWindowProgress(pc) ==
    CASE pc = "fw_restore"  -> 0
      [] pc = "fw_alt_down" -> 1
      [] pc = "fw_setfg"    -> 2
      [] pc = "fw_alt_up"   -> 3
      [] pc = "fw_done"     -> 4

\* C10: every run of focus_window makes, in this order and once each, the
\* calls restore, Alt press, activation request, Alt release; the release
\* is made whether the request succeeded or was rejected, so the synthetic
\* Alt key is never left pressed when focus_window returns.
C10_FocusWindowSequence ==
    /\ hk_pc \in {"fw_restore", "fw_alt_down", "fw_setfg", "fw_alt_up", "fw_done"}
         => os_calls = SubSeq(FocusWindowCalls(fw_hwnd), 1, FocusWindowProgress(hk_pc))
    /\ hk_pc = "fw_done" => fw_result \in {"ok", "rejected"}
    /\ hk_pc \notin {"fw_setfg", "fw_alt_up"} => ~alt_down

C10_Witness ==
    /\ hk_pc = "fw_done"
    /\ fw_result = "rejected"
    /\ os_calls = FocusWindowCalls(fw_hwnd)
    /\ ~alt_down

(***************************************************************************)
(* Properties of the target cells and of the listener thread.              *)
(***************************************************************************)
\* the running callback has read both targets
TargetsLoaded ==
    /\ IsTriggerChord(ev)
    /\ hk_pc \in {"fw_restore", "fw_alt_down", "fw_setfg", "fw_alt_up", "fw_done", "ret"}

\* C14: the targets may be stored at any time, before the hook is installed
\* too; a callback that no store has overtaken decides with the values of
\* the latest stores, and what a callback reads is always a value that was
\* stored in the cell it reads (or the initial 0), also when a store races
\* with it: it decides with what it read.
C14_LoadsSeeStores ==
    /\ \A i \in instances :
         /\ TERMINAL_HWND[i] \in reg_dom[i] \cup {0}
         /\ OWN_MOJI_HWND[i] \in reg_dom[i] \cup {0}
    /\ TargetsLoaded
         => LET i == Head(ev_pending) IN
            /\ terminal_hwnd \in reg_dom[i] \cup {0}
            /\ own_moji_hwnd \in reg_dom[i] \cup {0}
            /\ foreground_hwnd = ev_fg
            /\ ~ev_raced
                 => /\ terminal_hwnd = TERMINAL_HWND[i]
                    /\ own_moji_hwnd = OWN_MOJI_HWND[i]
            /\ LET d == Decide(foreground_hwnd, terminal_hwnd, own_moji_hwnd) IN
                 /\ hk_pc = "ret" => hk_ret = d.ret
                 /\ hk_pc # "ret" => d.focus = Some(fw_hwnd)

\* the terminal target was overwritten after the callback had read it: the
\* callback decides with the value it read
C14_Witness ==
    /\ TargetsLoaded
    /\ ev_raced
    /\ terminal_hwnd # 0
    /\ terminal_hwnd # TERMINAL_HWND[Head(ev_pending)]
    /\ OWN_MOJI_HWND[Head(ev_pending)] = own_moji_hwnd
    /\ hk_pc = "fw_done"

\* C15: once the installation of the hook has failed the engine stays
\* not installed: the thread has ended (no retry, no message loop), no hook
\* of the instance is in the chain, no callback of it runs and no chord is
\* intercepted by it; the targets can still be stored (the process lives).
C15_InstallFailureIsFinal ==
    [][\A i \in instances :
        /\ listener[i] = "failed"
             => /\ listener'[i] = "failed"
                /\ HOOK_HANDLE'[i] = 0
                /\ \A k \in DOMAIN hook_chain' : hook_chain'[k] # i
                /\ \A k \in DOMAIN ev_pending' : ev_pending'[k] # i
                /\ \A k \in DOMAIN ev_activations' : ev_activations'[k].inst # i
                /\ i \notin ev_forwarded'
        /\ (listener[i] = "installing" /\ listener'[i] # "installing")
             => \/ /\ listener'[i] = "active"
                   /\ Len(hook_chain') = Len(hook_chain) + 1
                   /\ hook_chain'[1] = i
                \/ /\ listener'[i] = "failed"
                   /\ hook_chain' = hook_chain
                   /\ HOOK_HANDLE' = HOOK_HANDLE
        /\ (listener[i] = "installing" /\ hook_chain' = hook_chain)
             => listener'[i] \in {"installing", "failed"}
      ]_vars

\* the installation failed; a chord typed while the terminal is in front
\* went to the application, and the helper target was stored afterwards
C15_Witness ==
    /\ listener[1] = "failed"
    /\ hk_pc = "event_done"
    /\ IsTriggerChord(ev)
    /\ ev_outcome = "delivered"
    /\ ev_activations = << >>
    /\ TERMINAL_HWND[1] # 0
    /\ ev_fg = TERMINAL_HWND[1]
    /\ OWN_MOJI_HWND[1] # 0

\* the state of the hook session of instance i
HookSession(l) ==
    CASE l \in {"not_started", "failed", "uninstalled"} -> "NotInstalled"
      [] l = "installing"   -> "Installing"
      [] l = "active"       -> "Active"
      [] l = "uninstalling" -> "Uninstalling"

HooksOf(chain, i) == Cardinality({ k \in DOMAIN chain : chain[k] = i })

\* the session's cycle, and the step of a failed installation
SessionCycle == { << "NotInstalled", "Installing" >>, << "Installing", "Active" >>,
                  << "Active", "Uninstalling" >>, << "Uninstalling", "NotInstalled" >> }
SessionFailure == { << "Installing", "NotInstalled" >> }

\* at most one hook per process, in the chain exactly while the session is
\* Active or Uninstalling; the session moves by the steps of `steps` only;
\* the hook leaves the chain only after the message loop has ended; the
\* installation state is written by the listener thread only
SessionDiscipline(steps) ==
    \A i \in instances :
        /\ HooksOf(hook_chain, i) <= 1
        /\ HooksOf(hook_chain, i) = 1 <=> listener[i] \in {"active", "uninstalling"}
        /\ HookSession(listener'[i]) # HookSession(listener[i])
             => << HookSession(listener[i]), HookSession(listener'[i]) >> \in steps
        /\ HooksOf(hook_chain', i) < HooksOf(hook_chain, i)
             => listener[i] = "uninstalling"
        /\ HOOK_HANDLE'[i] # HOOK_HANDLE[i]
             => listener[i] = "installing" /\ listener'[i] = "active"
        /\ HooksOf(hook_chain', i) # HooksOf(hook_chain, i)
             => listener'[i] # listener[i]

\* C16 as claimed: the session changes state only along
\* NotInstalled -> Installing -> Active -> Uninstalling -> NotInstalled.
C16_AsClaimed == [][SessionDiscipline(SessionCycle)]_vars

\* C16 (amended): as claimed, and a failed installation takes the session
\* from Installing back to NotInstalled.
C16_SessionLifecycle == [][SessionDiscipline(SessionCycle \cup SessionFailure)]_vars

\* the hook has been installed and removed again
C16_Witness ==
    /\ listener[1] = "uninstalled"
    /\ HOOK_HANDLE[1] = 1
    /\ hook_chain = << >>

(***************************************************************************)
(* The hook engine with the history of the toggle.  toggle_from is set     *)
(* when the dispatch of a chord ends and cleared by whatever the claim     *)
(* about alternation excludes: a store to a target, another focus change,  *)
(* a chord that was not consumed or whose activation was rejected.         *)
(***************************************************************************)
\* the chord just dispatched was consumed and its activation moved the focus
ChordMovedFocus ==
    /\ ev_outcome = "consumed"
    /\ ~ev_raced
    /\ ev_activations # << >>
    /\ foreground = ev_activations[1].hwnd
    /\ foreground # ev_fg

ToggleFromAfterEvent ==
    IF ~IsTriggerChord(ev) THEN toggle_from
    ELSE IF ChordMovedFocus THEN ev_fg
    ELSE 0

NextToggle ==
    \/ \E i \in instances, h \in Hwnd :
            set_terminal_hwnd(i, h) /\ toggle_from' = 0 /\ UNCHANGED toggleFrame
    \/ \E i \in instances, h \in Hwnd :
            set_own_moji_hwnd(i, h) /\ toggle_from' = 0 /\ UNCHANGED toggleFrame
    \/ \E w \in Hwnd : ForegroundChange(w) /\ toggle_from' = 0 /\ UNCHANGED toggleFrame
    \/ \E i \in instances : start_hotkey_listener(i) /\ UNCHANGED hookFrame
    \/ \E i \in instances : ListenerInstall(i) /\ UNCHANGED hookFrame
    \/ \E i \in instances : ListenerLoopEnds(i) /\ UNCHANGED hookFrame
    \/ \E i \in instances : ListenerUnhook(i) /\ UNCHANGED hookFrame
    \/ \E e \in KeyEvents : KeyEvent(e) /\ UNCHANGED hookFrame
    \/ HookProcEntry /\ UNCHANGED hookFrame
    \/ HookProcLoadTerminal /\ UNCHANGED hookFrame
    \/ HookProcDecide /\ UNCHANGED hookFrame
    \/ FocusWindowRestore /\ UNCHANGED hookFrame
    \/ FocusWindowAltDown /\ UNCHANGED hookFrame
    \/ FocusWindowSetForeground /\ UNCHANGED hookFrame
    \/ FocusWindowAltUp /\ UNCHANGED hookFrame
    \/ HookProcConsume /\ UNCHANGED hookFrame
    \/ HookProcReturn /\ UNCHANGED hookFrame
    \/ EventDone /\ toggle_from' = ToggleFromAfterEvent /\ UNCHANGED toggleFrame

SpecToggle == InitHook /\ [][NextToggle]_vars

\* a chord has gone through the hook of instance 1 while a window of its
\* complete pair was in front, with no store racing
PairChordDone ==
    /\ hk_pc = "event_done"
    /\ IsTriggerChord(ev)
    /\ ~ev_raced
    /\ CallableHooks # << >>
    /\ PairSet(1)
    /\ ev_fg \in Pair(1)

\* C28: with both targets set and different and a window of the pair in
\* front, a chord is consumed and requests the other window of the pair;
\* when the activation succeeds the other window is in front afterwards, and
\* when the chord before it did the same with nothing in between, the
\* window in front is again the one that was in front before that chord.
C28_ChordsAlternate ==
    PairChordDone
    => /\ ev_outcome = "consumed"
       /\ ev_activations = << [inst |-> 1, hwnd |-> OtherOfPair(1, ev_fg)] >>
       /\ foreground \in {ev_fg, OtherOfPair(1, ev_fg)}
       /\ toggle_from # 0 => toggle_from = OtherOfPair(1, ev_fg)
       /\ (foreground # ev_fg /\ toggle_from # 0) => foreground = toggle_from

\* the second of two chords has brought back the window that was in front
\* before the first
C28_Witness ==
    /\ PairChordDone
    /\ toggle_from # 0
    /\ foreground = toggle_from
    /\ foreground # ev_fg
    /\ ev_outcome = "consumed"

(***************************************************************************)
(* Properties of the callback over all events and all targets.             *)
(***************************************************************************)
\* the event is not a key-down of the trigger key with Ctrl held
MissesChord(e) ==
    \/ e.code < 0
    \/ e.wparam # WM_KEYDOWN
    \/ e.vkCode # VK_I
    \/ ~e.ctrl

\* C23: an event that is not a key-down of the trigger key with Ctrl held
\* (another key, Ctrl not held, a key-up, a negative hook code) is forwarded
\* to the next hook by every callback, causes no OS call and no activation
\* request and is never consumed, and no step of its dispatch changes a
\* target or the window in front, whatever these are.
C23_OtherEventsForwarded ==
    /\ [](MissesChord(ev)
            => /\ ev_activations = << >>
               /\ os_calls = << >>
               /\ ev_outcome # "consumed"
               /\ hk_pc \in {"idle", "call", "ret", "event_done"}
               /\ hk_pc = "ret" => hk_ret = "forward"
               /\ hk_pc = "event_done" => ev_forwarded = { CallableHooks[k] : k \in DOMAIN CallableHooks })
    /\ [][(MissesChord(ev) /\ hk_pc # "idle") => UNCHANGED << targetVars, foreground >>]_vars

\* Ctrl+I without Ctrl held, while the terminal of a complete pair is in
\* front: the callback forwards it
C23_Witness ==
    /\ hk_pc = "ret"
    /\ ev = [TriggerChord EXCEPT !.ctrl = FALSE]
    /\ hk_ret = "forward"
    /\ PairSet(1)
    /\ foreground = TERMINAL_HWND[1]
    /\ os_calls = << >>

\* C24: whatever the window in front and the two targets are (unset targets
\* and equal targets included), a callback returns "consumed" exactly when
\* it has made exactly one activation request and "forwarded" only when it
\* has made none; no event causes more than one request, an event is
\* consumed only with one, and no step of the callback writes a target.
C24_ConsumeIffOneActivation ==
    /\ [](/\ Len(Requested) <= 1
          /\ Len(ev_activations) <= 1
          /\ hk_pc = "ret"
               => /\ hk_ret \in {"consume", "forward"}
                  /\ (hk_ret = "consume") <=> (Len(Requested) = 1)
                  /\ (hk_ret = "forward") <=> (Requested = << >>)
          /\ hk_pc = "event_done"
               => (ev_outcome = "consumed") <=> (Len(ev_activations) = 1))
    /\ [][hk_pc' # hk_pc => UNCHANGED targetVars]_vars

\* both targets name the window in front: it is activated and the chord
\* consumed
C24_Witness ==
    /\ ChordHandled
    /\ terminal_hwnd # 0
    /\ own_moji_hwnd = terminal_hwnd
    /\ foreground_hwnd = terminal_hwnd
    /\ hk_ret = "consume"
    /\ Requested = << terminal_hwnd >>

\* what the three values the callback read make of the chord (lines 110-134)
ConsumeExpected ==
    /\ terminal_hwnd # 0
    /\ own_moji_hwnd # 0
    /\ foreground_hwnd \in {terminal_hwnd, own_moji_hwnd}

\* C25: a callback whose activation request the OS rejected (a stale or
\* null handle) has made that one request and no other, goes on to return
\* and consumes the chord; consuming or forwarding is decided by the window
\* in front and the two targets as the callback read them, never by the
\* answer of the OS; no step of the callback writes a target.
C25_RejectionStillConsumes ==
    /\ [](/\ fw_result = "rejected"
               => /\ hk_pc \in {"fw_alt_up", "fw_done", "ret"}
                  /\ Requested = << fw_hwnd >>
                  /\ ev_activations = << [inst |-> Head(ev_pending), hwnd |-> fw_hwnd] >>
                  /\ hk_pc = "ret" => hk_ret = "consume"
          /\ ChordHandled => ((hk_ret = "consume") <=> ConsumeExpected))
    /\ [][(fw_result = "rejected" \/ fw_result' = "rejected")
            => UNCHANGED << targetVars, ev_activations >> \/ hk_pc = "fw_setfg"]_vars

\* the helper's handle is stale: the request is rejected, the terminal stays
\* in front and the chord is consumed
C25_Witness ==
    /\ ChordHandled
    /\ fw_result = "rejected"
    /\ hk_ret = "consume"
    /\ foreground_hwnd = terminal_hwnd
    /\ foreground = terminal_hwnd
    /\ Requested = << own_moji_hwnd >>
    /\ own_moji_hwnd # terminal_hwnd

locFrame == << hookVars, pasteVars, enumVars, pollVars, appVars, restVars >>

InitLocator ==
    LocInit /\ HookIdle /\ PasteRest /\ EnumRest /\ PollRest /\ AppRest /\ CallsRest

NextLocator ==
    \/ FindTerminalPidEnter /\ UNCHANGED locFrame
    \/ FindTerminalPidIterate /\ UNCHANGED locFrame
    \/ FindTerminalPidExhausted /\ UNCHANGED locFrame
    \/ InitTerminalTracking /\ UNCHANGED locFrame

SpecLocator == InitLocator /\ [][NextLocator]_vars

(***************************************************************************)
(* Properties of find_terminal_pid.  The parent chain is described here    *)
(* independently of the loop: Ancestor(m, h) is the pid reached from the   *)
(* current process by following h parent links (-1 once a pid without an   *)
(* entry has been passed).                                                 *)
(***************************************************************************)
RECURSIVE Ancestor(_, _)
Ancestor(m, h) ==
    IF h = 0 THEN CurrentPid
    ELSE LET a == Ancestor(m, h - 1)
         IN  IF a \in DOMAIN m THEN m[a].parent_pid ELSE -1

\* the process h hops up the chain exists and has a listed name
TerminalAt(m, h) ==
    LET a == Ancestor(m, h)
    IN  a \in DOMAIN m /\ IsTerminalName(m[a].name)

\* hop counts at which the chain shows a terminal; a chain of n processes
\* shows each of them within its first n hops
TerminalHops(m) == { h \in 0..Cardinality(DOMAIN m) : TerminalAt(m, h) }
NearestHops(m) ==
    LET hops == TerminalHops(m)
    IN  CHOOSE h \in hops : \A k \in hops : h <= k

\* A chain over n processes that still stands on a process after n hops has
\* visited n + 1 pids of the map, so one of them twice: it has a cycle.
\* Otherwise it has run into a pid without an entry: a missing link.
ChainHasCycle(m) == Ancestor(m, Cardinality(DOMAIN m)) \in DOMAIN m
ChainReachesMissing(m) == Ancestor(m, Cardinality(DOMAIN m)) \notin DOMAIN m

\* find_terminal_pid has returned after building the process map
LocatorReturned == loc_pc \in {"return", "done"} /\ snapshot_ok

\* C4 as claimed: a nearest terminal at most 10 hops away is returned, one
\* more than 10 hops away gives absence (the current process is at 0 hops).
C4_AsClaimed ==
    (LocatorReturned /\ TerminalHops(process_map) # {})
    => LET near == NearestHops(process_map)
       IN  IF near <= HopLimit
             THEN loc_result = Some(Ancestor(process_map, near))
             ELSE loc_result = None

\* C4 (amended): a nearest terminal at most 9 hops away (among the first 10
\* processes of the chain, the current process included) is returned; one
\* that is 10 or more hops away gives absence.
C4_NearestWithinNineHops ==
    (LocatorReturned /\ TerminalHops(process_map) # {})
    => LET near == NearestHops(process_map)
       IN  IF near <= HopLimit - 1
             THEN loc_result = Some(Ancestor(process_map, near))
             ELSE loc_result = None

\* the terminal is the 10th process of the chain, found by the last lookup
C4_Witness ==
    /\ LocatorReturned
    /\ loc_lookups = HopLimit
    /\ loc_result # None
    /\ TerminalHops(process_map) # {}
    /\ NearestHops(process_map) = HopLimit - 1
    /\ loc_result = Some(Ancestor(process_map, HopLimit - 1))

\* C5: on a chain with a cycle (a process that is its own parent included)
\* or with a missing link, find_terminal_pid makes at most 10 map lookups
\* and begins at most 10 iterations, and returns absence when none of the
\* processes it visited has a listed name.
C5_BoundedWalk ==
    (ChainHasCycle(process_map) \/ ChainReachesMissing(process_map))
    => /\ loc_lookups <= HopLimit
       /\ loc_iter <= HopLimit
       /\ (/\ LocatorReturned
           /\ \A h \in 0..(HopLimit - 1) : ~TerminalAt(process_map, h))
          => loc_result = None

\* a process that is its own parent: the walk stops after 10 lookups
C5_Witness ==
    /\ LocatorReturned
    /\ ChainHasCycle(process_map)
    /\ Cardinality(DOMAIN process_map) = 1
    /\ loc_lookups = HopLimit
    /\ loc_result = None

\* "equals an allow-list entry ignoring ASCII case", said without the code's
\* comparison: both names folded to lower case are the same string
FoldCase(name) == [k \in 1..Len(name) |-> IF name[k] \in 65..90 THEN name[k] + 32 ELSE name[k]]
ListedIgnoringCase(name) ==
    FoldCase(name) \in { FoldCase(TERMINAL_PROCESS_NAMES[k]) : k \in 1..Len(TERMINAL_PROCESS_NAMES) }

\* the process h hops up the chain exists and its name is listed
ListedAt(m, h) ==
    LET a == Ancestor(m, h)
    IN  a \in DOMAIN m /\ ListedIgnoringCase(m[a].name)

\* the result is the first listed process among those at most `reach` hops
\* up the chain, and absence when none of them is listed
FirstListedWithin(reach) ==
    LET hops == { h \in 0..reach : ListedAt(process_map, h) } IN
    IF hops = {} THEN loc_result = None
    ELSE \E h \in hops :
            /\ \A k \in hops : h <= k
            /\ loc_result = Some(Ancestor(process_map, h))

\* C18 as claimed: the result is the first process of the whole chain, the
\* current process included, whose name is listed ignoring ASCII case.
C18_AsClaimed ==
    LocatorReturned => FirstListedWithin(Cardinality(DOMAIN process_map))

\* C18 (amended): the result is the first process among the first 10 of the
\* chain (the current process and the 9 above it) whose name is listed
\* ignoring ASCII case, and absence when none of them is; a nearer match
\* wins over a farther one and a process that is not listed is never
\* returned.
C18_FirstListedAmongVisited ==
    LocatorReturned
    => /\ FirstListedWithin(HopLimit - 1)
       /\ loc_result # None
            => /\ loc_result[1] \in DOMAIN process_map
               /\ ListedIgnoringCase(process_map[loc_result[1]].name)

\* "PwSh.EXE" three hops up wins over "cmd.exe" farther up
C18_Witness ==
    /\ LocatorReturned
    /\ loc_result = Some(Ancestor(process_map, 3))
    /\ process_map[loc_result[1]].name = << 80, 119, 83, 104, 46, 69, 88, 69 >>
    /\ \E h \in 4..(HopLimit - 1) :
            /\ Ancestor(process_map, h) \in DOMAIN process_map
            /\ process_map[Ancestor(process_map, h)].name = << 99, 109, 100, 46, 101, 120, 101 >>

(***************************************************************************)
(* hook.rs lines 79-82: is_trigger, applied to prompts of at most          *)
(* MaxPromptLen characters over a slash, a space, a line feed and a        *)
(* letter.                                                                 *)
(***************************************************************************)
PromptChars == { "/", " ", "\n", "a" }
Prompts == UNION { [1..n -> PromptChars] : n \in 0..MaxPromptLen }

\* char::is_whitespace, for the characters of the model
White == { " ", "\r", "\n" }

\* str::trim_start
RECURSIVE TrimStart(_)
TrimStart(t) ==
    IF t # << >> /\ t[1] \in White THEN TrimStart(Tail(t)) ELSE t

\* (faulty variant: only the end is trimmed)
TrimOnlyEnd(t) == TrimEnd(t)
\* str::trim: leading and trailing whitespace removed
Trim(t) == TrimStart(TrimEnd(t))

\* str::starts_with
starts_with(t, pat) ==
    /\ Len(t) >= Len(pat)
    /\ SubSeq(t, 1, Len(pat)) = pat

\* line 81: prompt.trim().starts_with("//")
is_trigger(p) == starts_with(Trim(p), << "/", "/" >>)

\* a caller applies is_trigger to its prompt
IsTriggerCall ==
    /\ returned = NoReturn
    /\ returned' = [op |-> "is_trigger", value |-> is_trigger(prompt)]
    /\ UNCHANGED << prompt, locVars, TERMINAL_PID, hookVars, pasteVars, enumVars,
                    pollVars, appVars, toggle_from, detachVars >>

InitTrigger ==
    /\ HookIdle
    /\ LocIdle
    /\ TERMINAL_PID = None
    /\ PasteRest
    /\ EnumRest
    /\ PollRest
    /\ AppRest
    /\ prompt \in Prompts
    /\ returned = NoReturn
    /\ DetachRest

NextTrigger == IsTriggerCall

SpecTrigger == InitTrigger /\ [][NextTrigger]_vars

(***************************************************************************)
(* Properties of is_trigger, stated over the positions of the prompt.      *)
(***************************************************************************)
\* the position of the first character of p that is not whitespace, 0 when
\* there is none
FirstNonWhite(p) ==
    IF \A k \in DOMAIN p : p[k] \in White THEN 0
    ELSE CHOOSE k \in DOMAIN p : p[k] \notin White /\ \A j \in 1..(k - 1) : p[j] \in White

\* the first two characters that follow the leading whitespace are "//"
BeginsWithTwoSlashes(p) ==
    LET k == FirstNonWhite(p) IN
        /\ k # 0
        /\ k + 1 <= Len(p)
        /\ p[k] = "/"
        /\ p[k + 1] = "/"

\* C22: is_trigger(prompt) is true exactly when the prompt, with leading and
\* trailing whitespace removed, starts with "//"; it is false for the empty
\* prompt, for a prompt with a single leading slash, and for every prompt
\* whose first characters after the whitespace are not "//".
C22_IsTrigger ==
    returned.op = "is_trigger"
      => /\ returned.value = BeginsWithTwoSlashes(prompt)
         /\ prompt = << >> => returned.value = FALSE
         /\ (FirstNonWhite(prompt) = 0) => returned.value = FALSE
         /\ (/\ FirstNonWhite(prompt) # 0
             /\ prompt[FirstNonWhite(prompt)] = "/"
             /\ \/ FirstNonWhite(prompt) = Len(prompt)
                \/ prompt[FirstNonWhite(prompt) + 1] # "/") => returned.value = FALSE
         /\ (FirstNonWhite(prompt) # 0 /\ prompt[FirstNonWhite(prompt)] # "/")
              => returned.value = FALSE

\* the third case of test_is_trigger: "  //" is a trigger
C22_Witness ==
    /\ prompt = << " ", " ", "/", "/" >>
    /\ returned = [op |-> "is_trigger", value |-> TRUE]

(***************************************************************************)
(* The build for other platforms than Windows: the `#[cfg(not(windows))]`  *)
(* items of terminal.rs and hotkey.rs, and paste_to_terminal, which is     *)
(* compiled for every platform and calls them.  Each operation is applied  *)
(* as a whole; `returned` holds its name and its value.                    *)
(***************************************************************************)
\* terminal.rs lines 101-131: find_terminal_pid walks the process table that
\* sysinfo has read; n iterations of `for _ in 0..10` are left
RECURSIVE SysinfoWalk(_, _, _)
SysinfoWalk(m, current, n) ==
    IF n = 0 THEN None
    ELSE IF current \notin DOMAIN m THEN None                     \* sys.process(current)
    ELSE IF IsTerminalName(m[current].name) THEN Some(current)
    ELSE IF m[current].parent_pid # 0                             \* process.parent()
           THEN SysinfoWalk(m, m[current].parent_pid, n - 1)
           ELSE None

find_terminal_pid_sysinfo == SysinfoWalk(process_map, CurrentPid, HopLimit)

\* terminal.rs lines 180-183
get_window_by_pid_stub(pid) == None

\* terminal.rs lines 341-343
get_foreground_window_stub == None

\* terminal.rs lines 194-197
set_foreground_window_stub(hwnd) == FALSE

\* the four keys of paste_to_terminal, lines 306-320
PasteKeys == << "Control press", "v", "Control release", "Return" >>

\* terminal.rs lines 274-325 with the items above: the error returned and
\* the keys injected
paste_to_terminal_stubbed(hwnd_override) ==
    LET hwnd == IF hwnd_override # None THEN hwnd_override
                ELSE IF get_terminal_pid = None THEN None
                ELSE get_window_by_pid_stub(get_terminal_pid[1])
    IN  IF hwnd = None
          THEN [result |-> IF get_terminal_pid = None
                             THEN "Terminal process not found"
                             ELSE "Could not find window for terminal PID",
                keys   |-> << >>]
        ELSE IF ~set_foreground_window_stub(hwnd[1])
          THEN [result |-> "Failed to set foreground window", keys |-> << >>]
          ELSE [result |-> "ok", keys |-> PasteKeys]

\* the rest of the state is untouched by every operation of this build
stubFrame == << process_map, snapshot_ok, current_pid, loc_iter, loc_lookups, loc_result,
                loc_pc, hookVars, pasteVars, enumVars, pollVars, appVars, toggle_from,
                prompt, detachVars >>

\* init_terminal_tracking, lines 204-208, with the sysinfo walk
StubInitTerminalTracking ==
    /\ returned' = [op |-> "find_terminal_pid", value |-> find_terminal_pid_sysinfo]
    /\ TERMINAL_PID' = IF find_terminal_pid_sysinfo # None /\ TERMINAL_PID = None
                         THEN find_terminal_pid_sysinfo ELSE TERMINAL_PID
    /\ UNCHANGED stubFrame

StubGetWindowByPid(pid) ==
    /\ returned' = [op |-> "get_window_by_pid", value |-> get_window_by_pid_stub(pid)]
    /\ UNCHANGED << TERMINAL_PID, stubFrame >>

StubGetForegroundWindow ==
    /\ returned' = [op |-> "get_foreground_window", value |-> get_foreground_window_stub]
    /\ UNCHANGED << TERMINAL_PID, stubFrame >>

StubSetForegroundWindow(hwnd) ==
    /\ returned' = [op |-> "set_foreground_window", value |-> set_foreground_window_stub(hwnd)]
    /\ UNCHANGED << TERMINAL_PID, stubFrame >>

\* hotkey.rs lines 83-86: an empty body
StubStartHotkeyListener ==
    /\ returned' = [op |-> "start_hotkey_listener", value |-> None]
    /\ UNCHANGED << TERMINAL_PID, stubFrame >>

StubPasteToTerminal(hwnd_override) ==
    /\ returned' = [op |-> "paste_to_terminal",
                    value |-> paste_to_terminal_stubbed(hwnd_override)]
    /\ UNCHANGED << TERMINAL_PID, stubFrame >>

\* the process tables this build is started on: chains that end at a
\* process without a parent, with at most one process not named explorer.exe
StubMaps ==
    { ChainMap(L, 0, pos1, name1, 0, AnyName) :
        L \in 0..MaxChain, pos1 \in 0..MaxChain, name1 \in SpecialNames }

\* a desktop with windows, of which one may be in front, and a process table
InitStub ==
    /\ process_map \in StubMaps
    /\ snapshot_ok = TRUE
    /\ current_pid = CurrentPid
    /\ loc_iter = 0
    /\ loc_lookups = 0
    /\ loc_result = None
    /\ loc_pc = "done"
    /\ TERMINAL_PID = None
    /\ HookInit
    /\ windows \in AppWindowLists
    /\ foreground \in {0} \cup { windows[k].hwnd : k \in DOMAIN windows }
    /\ PasteIdle
    /\ EnumRest
    /\ PollRest
    /\ AppRest
    /\ CallsRest

NextStub ==
    \/ StubInitTerminalTracking
    \/ \E pid \in WindowPids : StubGetWindowByPid(pid)
    \/ StubGetForegroundWindow
    \/ \E hwnd \in 0..MaxWinHwnd : StubSetForegroundWindow(hwnd)
    \/ StubStartHotkeyListener
    \/ \E o \in {None} \cup { Some(h) : h \in WinHwnd } : StubPasteToTerminal(o)

SpecStub == InitStub /\ [][NextStub]_vars

(***************************************************************************)
(* Properties of the build for other platforms.                            *)
(***************************************************************************)
\* the listener, the hooks, the desktop and the keys injected are as at the
\* start of the process
NothingInstalledOrInjected ==
    /\ \A i \in Inst : listener[i] = "not_started" /\ HOOK_HANDLE[i] = 0
    /\ hook_chain = << >>
    /\ os_calls = << >>
    /\ sfw_calls = << >>
    /\ ps_trace = << >>
    /\ returned.op = "paste_to_terminal"
         => /\ returned.value.result # "ok"
            /\ returned.value.keys = << >>

\* the window operations answer absence or failure
WindowOperationsAnswerNothing ==
    /\ returned.op \in {"get_window_by_pid", "get_foreground_window"}
         => returned.value = None
    /\ returned.op = "set_foreground_window" => returned.value = FALSE

\* C21 as claimed: every operation answers absence or failure, and
\* find_terminal_pid answers absence without inspecting any process.
C21_AsClaimed ==
    /\ NothingInstalledOrInjected
    /\ WindowOperationsAnswerNothing
    /\ returned.op = "find_terminal_pid" => returned.value = None

\* C21, what the code does: on a build for another platform than Windows,
\* get_window_by_pid and get_foreground_window return absence without
\* inspecting any window, set_foreground_window returns false,
\* start_hotkey_listener installs nothing and starts no thread, and
\* paste_to_terminal returns an error without injecting any keystroke; but
\* find_terminal_pid is not a no-op: it reads the process table and
\* returns the first process, among the current one and those above it
\* within 10 lookups, whose name is listed, and absence when there is none.
C21_StubsExceptLocator ==
    /\ [](/\ NothingInstalledOrInjected
          /\ WindowOperationsAnswerNothing
          /\ returned.op = "find_terminal_pid"
               => LET hops == { h \in 0..(HopLimit - 1) : ListedAt(process_map, h) } IN
                  IF hops = {} THEN returned.value = None
                  ELSE \E h \in hops : /\ \A k \in hops : h <= k
                                       /\ returned.value = Some(Ancestor(process_map, h)))
    /\ [][UNCHANGED << windows, foreground, process_map >>]_vars

\* find_terminal_pid has found the terminal two processes up, on a desktop
\* with a window, and a delivery to that window has failed at the activation
C21_Witness ==
    /\ TERMINAL_PID = Some(3)
    /\ windows # << >>
    /\ returned.op = "paste_to_terminal"
    /\ returned.value = [result |-> "Failed to set foreground window", keys |-> << >>]

(***************************************************************************)
(* The chord pressed on the desktop of a resident process: the hook of     *)
(* hotkey.rs runs first; an event it passes on is delivered to the window  *)
(* in front, and when that is the helper's window, to the Ctrl+I handler   *)
(* of resident_update (app.rs 110-122).  The polling thread and the        *)
(* window-focused events register the helper target at any moment.         *)
(***************************************************************************)
\* the dispatch of the chord has ended with the event passed on, and the
\* helper's window is in front
ChordReachesHelper ==
    /\ hk_pc = "event_done"
    /\ ev_outcome = "delivered"
    /\ IsTriggerChord(ev)
    /\ helper_hwnd # 0
    /\ foreground = helper_hwnd

\* the handler has run for the event in dispatch
HelperHandledChord == upd_trace = << Step("CtrlI", TRUE) >>

\* the handles the helper's window can get: none of the desktop's other
\* windows
HelperHandles == (MaxWinHwnd + 1)..MaxHwnd

\* the GUI creates the window before the polling thread's lookup number
\* MaxAppearAttempt + 1, or after the thread has ended
HelperAppearsEarlyOrLate ==
    \/ poll_attempts <= MaxAppearAttempt
    \/ poll_pc = "done"

NextChord ==
    \/ MainInitTerminalTracking /\ UNCHANGED restVars
    \/ MainResolveTerminal /\ UNCHANGED restVars
    \/ MainSetTerminalHwnd /\ UNCHANGED restVars
    \/ MainStartListener /\ UNCHANGED restVars
    \/ ListenerInstall(1) /\ UNCHANGED hookFrame
    \/ RunResidentGui /\ UNCHANGED restVars
    \/ \E h \in HelperHandles : /\ HelperAppearsEarlyOrLate
                                 /\ HelperWindowAppears(h)
                                 /\ UNCHANGED << hookVars, pollFrame >>
    \/ PollLookup /\ UNCHANGED pollFrame
    \/ PollSleep /\ UNCHANGED << hookVars, pollFrame >>
    \/ PollGiveUp /\ UNCHANGED << hookVars, pollFrame >>
    \/ AppFocused /\ UNCHANGED restVars
    \/ \E w \in (0..MaxWinHwnd) \cup {helper_hwnd} :
            ForegroundChange(w) /\ UNCHANGED hookFrame
    \/ upd_pc = "idle" /\ KeyEvent(TriggerChord) /\ UNCHANGED hookFrame
    \/ HookProcEntry /\ UNCHANGED hookFrame
    \/ HookProcLoadTerminal /\ UNCHANGED hookFrame
    \/ HookProcDecide /\ UNCHANGED hookFrame
    \/ FocusWindowRestore /\ UNCHANGED hookFrame
    \/ FocusWindowAltDown /\ UNCHANGED hookFrame
    \/ FocusWindowSetForeground /\ UNCHANGED hookFrame
    \/ FocusWindowAltUp /\ UNCHANGED hookFrame
    \/ HookProcConsume /\ UNCHANGED hookFrame
    \/ HookProcReturn /\ UNCHANGED hookFrame
    \/ ChordReachesHelper /\ AppCtrlI /\ UNCHANGED restVars
    \/ (ChordReachesHelper => HelperHandledChord) /\ EventDone /\ UNCHANGED hookFrame
    \/ (HelperHandledChord => hk_pc = "idle") /\ AppUpdateReturn /\ UNCHANGED restVars

SpecChord == InitApp /\ [][NextChord]_vars

(***************************************************************************)
(* Properties of the chord on the desktop of a resident process.           *)
(***************************************************************************)
\* the activation requests made for the press: by the hook and by the
\* helper's handler
HookRequests == Len(ev_activations)
HandlerRequests == Cardinality(ActivationRequests(sfw_calls))

\* C31: one press of Ctrl+I leads to at most one activation request in
\* total, by the hook and the helper's own handler together: when the hook
\* consumes the chord the helper's handler does not run for it, and the
\* handler makes its request only for a chord that every hook passed on
\* without a request; this holds for every interleaving of the press with
\* the registration of the helper target.
C31_AtMostOneRequest ==
    /\ HookRequests + HandlerRequests <= 1
    /\ (hk_pc # "idle" /\ ev_outcome = "consumed") => (~HelperHandledChord /\ sfw_calls = << >>)
    /\ HelperHandledChord
         => /\ HookRequests = 0
            /\ sfw_calls \in { << >>, << OsCall("SetForegroundWindow", TERMINAL_HWND[1]) >> }
            /\ (hk_pc # "idle") => (IsTriggerChord(ev) /\ ev_outcome = "delivered")

\* the chord was pressed in the helper's window between two lookups of the
\* polling thread, before the helper target was registered: the hook passed
\* it on and the helper's handler made the one request, for the terminal
C31_Witness ==
    /\ HelperHandledChord
    /\ hk_pc = "event_done"
    /\ ev_fg = helper_hwnd
    /\ OWN_MOJI_HWND[1] = 0
    /\ poll_pc = "sleep"
    /\ ev_forwarded = {1}
    /\ HookRequests = 0
    /\ TERMINAL_HWND[1] # 0
    /\ sfw_calls = << OsCall("SetForegroundWindow", TERMINAL_HWND[1]) >>

(***************************************************************************)
(* main.rs lines 13-88: detach mode.  A window title is a sequence of      *)
(* characters.  The helper's windows on the desktop are those of running   *)
(* resident processes (app.rs 225 and 250) and of hook-mode processes      *)
(* (app.rs 373).                                                           *)
(***************************************************************************)
\* "MojiBridge": the title FindWindowW is asked for (line 18) and the title
\* of the hook-mode window (app.rs 373)
MojiBridgeTitle == << "M", "o", "j", "i", "B", "r", "i", "d", "g", "e" >>

\* a title of another application
OtherTitle == << "e", "d", "i", "t" >>

\* isize::to_string for a handle that is not negative
RECURSIVE Decimal(_)
Decimal(n) ==
    LET digit(d) == << "0", "1", "2", "3", "4", "5", "6", "7", "8", "9" >>[d + 1]
    IN  IF n < 10 THEN << digit(n) >> ELSE Decimal(n \div 10) \o << digit(n % 10) >>

\* app.rs line 225: format!("MojiBridge-{}", config.terminal_hwnd.unwrap_or(0))
ResidentTitle(hwnd) == MojiBridgeTitle \o << "-" >> \o Decimal(WindowTitle(hwnd))

\* the titles of the windows of running resident helpers
ResidentTitles == { ResidentTitle(h) : h \in {None} \cup { Some(w) : w \in WinHwnd } }

\* the titles of the helper's windows, of either mode
HelperTitles == {MojiBridgeTitle} \cup ResidentTitles

\* (faulty variant: FindWindowW taken to match the beginning of a title)
FindWindowByPrefix(title) ==
    \E t \in titles : Len(t) >= Len(title) /\ SubSeq(t, 1, Len(title)) = title
\* FindWindowW(None, title): a top-level window whose title is the string
FindWindowW(title) == \E t \in titles : t = title

\* lines 14-27
check_existing_window == FindWindowW(MojiBridgeTitle)

\* lines 52-60: "--resident" and, for Some(h), "--terminal-hwnd" h
ResidentArgs(hwnd) == [resident |-> TRUE, terminal_hwnd |-> hwnd]

\* a window is opened before the existence check
TitleAppears(t) ==
    /\ dt_pc \in {"start", "captured"}
    /\ t \notin titles
    /\ titles' = titles \cup {t}
    /\ UNCHANGED << dt_pc, dt_hwnd, dt_spawned >>

\* line 39: the window in front is read first
DetachCapture ==
    /\ dt_pc = "start"
    /\ dt_hwnd' = get_foreground_window
    /\ dt_pc' = "captured"
    /\ UNCHANGED << titles, dt_spawned >>

\* lines 42-45
DetachCheck ==
    /\ dt_pc = "captured"
    /\ dt_pc' = IF check_existing_window THEN "exit" ELSE "build"
    /\ UNCHANGED << titles, dt_hwnd, dt_spawned >>

\* lines 48-86: without the path of the executable the function returns;
\* with it the command is built and spawned, the outcome of spawn ignored
DetachSpawn ==
    /\ dt_pc = "build"
    /\ \E current_exe_ok \in BOOLEAN :
         dt_spawned' = IF current_exe_ok
                         THEN Append(dt_spawned, ResidentArgs(dt_hwnd))
                         ELSE dt_spawned
    /\ dt_pc' = "exit"
    /\ UNCHANGED << titles, dt_hwnd >>

detachFrame == << locVars, TERMINAL_PID, hookVars, pasteVars, enumVars, pollVars, appVars,
                  toggle_from, callVars >>

InitDetach ==
    /\ HookIdle
    /\ LocIdle
    /\ TERMINAL_PID = None
    /\ PasteRest
    /\ EnumRest
    /\ PollRest
    /\ AppRest
    /\ prompt = << >>
    /\ returned = NoReturn
    /\ titles \in SUBSET (HelperTitles \cup {OtherTitle})
    /\ dt_pc = "start"
    /\ dt_hwnd = None
    /\ dt_spawned = << >>

NextDetach ==
    \/ \E w \in 0..MaxWinHwnd : ForegroundChange(w) /\ UNCHANGED << hookFrame, detachVars >>
    \/ \E t \in HelperTitles \cup {OtherTitle} : TitleAppears(t) /\ UNCHANGED detachFrame
    \/ DetachCapture /\ UNCHANGED detachFrame
    \/ DetachCheck /\ UNCHANGED detachFrame
    \/ DetachSpawn /\ UNCHANGED detachFrame

SpecDetach == InitDetach /\ [][NextDetach]_vars

(***************************************************************************)
(* Properties of detach mode.                                              *)
(***************************************************************************)
\* detach_and_spawn_resident has returned
DetachReturned == dt_pc = "exit"

\* a window of the helper, of either mode, is on the desktop
HelperWindowExists == titles \cap HelperTitles # {}

\* C32 as claimed: with a helper window on the desktop, the window of a
\* running resident helper included, no resident process is spawned;
\* without one, exactly one spawn is attempted, carrying the window handle
\* read before the existence check.
C32_AsClaimed ==
    DetachReturned
    => IF HelperWindowExists
         THEN dt_spawned = << >>
         ELSE dt_spawned = << ResidentArgs(dt_hwnd) >>

\* C32, what the code does: only a window titled exactly "MojiBridge"
\* prevents the spawn; the windows of running resident helpers, titled
\* "MojiBridge-<handle>", do not.  Without a window titled "MojiBridge" at
\* most one spawn is attempted (none when the path of the executable is
\* unavailable), carrying the window handle read before the check.
C32_OnlyExactTitlePreventsSpawn ==
    /\ [](/\ Len(dt_spawned) <= 1
          /\ dt_spawned # << >>
               => /\ DetachReturned
                  /\ MojiBridgeTitle \notin titles
                  /\ dt_spawned = << ResidentArgs(dt_hwnd) >>
          /\ (DetachReturned /\ MojiBridgeTitle \in titles) => dt_spawned = << >>)
    /\ [][(dt_pc = "captured" /\ dt_pc' = "exit") => MojiBridgeTitle \in titles]_vars

\* a resident helper for window 1 is running, window 1 was in front at the
\* capture and window 2 is in front now: a second resident process for
\* window 1 has been spawned
C32_Witness ==
    /\ DetachReturned
    /\ ResidentTitle(Some(1)) \in titles
    /\ dt_spawned = << ResidentArgs(Some(1)) >>
    /\ foreground = 2

====
